---- MODULE Spec2Model ----
(***************************************************************************)
(* A model of android_bootimg: the header layout catalog (layouts.rs), the *)
(* header / block / AVB parser (parser.rs), compression format detection   *)
(* (compress.rs) and the patcher (patcher.rs).                             *)
(*                                                                         *)
(* Byte buffers are modelled sparsely: a buffer is its length plus the map *)
(* of its non-zero bytes, so that images of several megabytes keep the     *)
(* real offsets and page sizes of the code.                                *)
(***************************************************************************)
EXTENDS Integers, Sequences, FiniteSets, TLC

VARIABLES
    src,              \* the source image bytes handed to BootImage::parse
    overflow_checks,  \* build profile: TRUE = arithmetic overflow panics (debug)
    boot,             \* outcome of BootImage::parse(src)
    opt,              \* BootImagePatchOption under construction
    out,              \* the output sink: [data, cur]
    p,                \* locals of BootImagePatchOption::patch
    ops,              \* log of the operations patch performed on the sink
    pc,               \* position of the program
    cpio,             \* Cpio::entries: the map from path to CpioEntry
    cpio_io,          \* the last Cpio call: its path argument, archive and outcome
    probe,            \* the last parse_compress_format call: its input and result
    dumped,           \* the last dump of a block: the block, raw, and the outcome
    enc,              \* the LZ4BlockEncoder: its chunker, its sink, and the writes so far
    dec,              \* the LZ4BlockDecoder: its reader, its buffers, and the last read
    got               \* the last header accessor call: the field and the value returned

bootvars == <<src, overflow_checks, boot, opt, out, p, ops, pc>>
cpiovars == <<cpio, cpio_io>>
toolvars == <<cpio, cpio_io, probe, dumped, enc, dec, got>>
vars == <<src, overflow_checks, boot, opt, out, p, ops, pc, cpio, cpio_io, probe, dumped, enc, dec, got>>

-----------------------------------------------------------------------------
(* Option values *)
None == <<>>
Some(x) == <<x>>
IsSome(o) == o # <<>>
Unwrap(o) == o[1]

Max(a, b) == IF a >= b THEN a ELSE b
Min(a, b) == IF a <= b THEN a ELSE b

-----------------------------------------------------------------------------
(* Byte buffers: [len, nz] with nz the map offset -> non-zero byte *)

Empty == [len |-> 0, nz |-> <<>>]
Zeros(n) == [len |-> n, nz |-> <<>>]

At(b, i) == IF i \in DOMAIN b.nz THEN b.nz[i] ELSE 0

FromSeq(s) ==
    [len |-> Len(s),
     nz  |-> [i \in {k - 1 : k \in {j \in 1..Len(s) : s[j] # 0}} |-> s[i + 1]]]

\* &b[s..e], for 0 <= s <= e <= b.len
Slice(b, s, e) ==
    [len |-> e - s,
     nz  |-> [i \in {k - s : k \in {j \in DOMAIN b.nz : j >= s /\ j < e}} |-> b.nz[i + s]]]

\* <[u8]>::get(s..e)
Get(b, s, e) == IF s <= e /\ e <= b.len THEN Some(Slice(b, s, e)) ELSE None

\* the buffer b after writing the bytes d at offset off (a file write: a gap
\* between the old end and off reads as zeros)
Put(b, off, d) ==
    IF d.len = 0 THEN b
    ELSE [len |-> Max(b.len, off + d.len),
          nz  |-> [i \in {k \in DOMAIN b.nz : k < off \/ k >= off + d.len}
                         \cup {k + off : k \in DOMAIN d.nz}
                     |-> IF i >= off /\ i < off + d.len THEN d.nz[i - off] ELSE b.nz[i]]]

Concat(a, b) == Put(a, a.len, b)

\* <[u8]>::starts_with
StartsWith(b, s) == b.len >= Len(s) /\ \A i \in 1..Len(s) : At(b, i - 1) = s[i]

\* u32::from_le_bytes / to_le_bytes, u64::from_be_bytes / to_be_bytes.
\* Values of the model stay below 2^31; a u64 with a non-zero upper half
\* reads as Huge, which exceeds every buffer length of the model.
Huge == 2^30 + (2^30 - 1)
from_le_bytes(b, off) ==
    At(b, off) + 256 * At(b, off + 1) + 65536 * At(b, off + 2) + 16777216 * At(b, off + 3)
to_le_bytes(v) ==
    FromSeq(<<v % 256, (v \div 256) % 256, (v \div 65536) % 256, (v \div 16777216) % 256>>)
from_be_bytes(b, off) ==
    IF \E i \in 0..3 : At(b, off + i) # 0 THEN Huge
    ELSE 16777216 * At(b, off + 4) + 65536 * At(b, off + 5) + 256 * At(b, off + 6) + At(b, off + 7)
to_be_bytes(v) ==
    FromSeq(<<0, 0, 0, 0, (v \div 16777216) % 256, (v \div 65536) % 256, (v \div 256) % 256, v % 256>>)

-----------------------------------------------------------------------------
(* utils.rs *)

Panic == -1

RECURSIVE BitAnd(_, _)
BitAnd(a, b) ==
    IF a = 0 \/ b = 0 THEN 0
    ELSE (a % 2) * (b % 2) + 2 * BitAnd(a \div 2, b \div 2)

\* !x on the model's word
BitNot(x) == Huge - x

align_to_nomask(num, alignment) == num

align_to_roundup(num, alignment) ==
    IF alignment = 0 THEN (IF overflow_checks THEN Panic ELSE 0)
    ELSE IF BitAnd(alignment, alignment - 1) # 0 THEN Panic
    ELSE BitAnd(num + alignment, BitNot(alignment - 1))

\* align_to: alignment 0 underflows `alignment - one`: a panic with overflow
\* checks, otherwise the mask !(usize::MAX) = 0 and the result 0.
align_to(num, alignment) ==
    IF alignment = 0 THEN (IF overflow_checks THEN Panic ELSE 0)
    ELSE IF BitAnd(alignment, alignment - 1) # 0 THEN Panic
    ELSE BitAnd(num + alignment - 1, BitNot(alignment - 1))

\* SliceExt::u32_at
u32_at(b, offset) ==
    IF offset + 4 <= b.len THEN Some(from_le_bytes(b, offset)) ELSE None

-----------------------------------------------------------------------------
(* constants.rs *)
BOOT_NAME_SIZE == 16
BOOT_ARGS_SIZE == 512
BOOT_ID_SIZE == 32
BOOT_EXTRA_ARGS_SIZE == 1024
VENDOR_BOOT_ARGS_SIZE == 2048
VENDOR_RAMDISK_NAME_SIZE == 32
VENDOR_RAMDISK_TABLE_ENTRY_BOARD_ID_SIZE == 16
AVB_FOOTER_MAGIC == <<65, 86, 66, 102>>    \* "AVBf"
AVB_MAGIC == <<65, 86, 66, 48>>            \* "AVB0"

-----------------------------------------------------------------------------
(* layouts.rs: the layout catalog *)

IFields == {"kernel_size", "ramdisk_size", "second_size", "page_size",
            "header_version", "os_version", "recovery_dtbo_size",
            "recovery_dtbo_offset", "header_size", "dtb_size", "signature_size",
            "vendor_ramdisk_table_size", "vendor_ramdisk_table_entry_num",
            "vendor_ramdisk_table_entry_size", "bootconfig_size"}
SFields == {"name", "cmdline", "id", "extra_cmdline"}

DEFAULT_LAYOUT ==
    [name |-> "default",
     offset |-> [f \in IFields \cup SFields |-> 0],
     size |-> [f \in SFields |-> 0],
     total_size |-> 0]

u32 == 4
u64 == 8

\* define_layout_offsets: the offset of the i-th item of a structure
RECURSIVE ItemOffset(_, _, _)
ItemOffset(structure, initial_offset, i) ==
    IF i = 1 THEN initial_offset
    ELSE ItemOffset(structure, initial_offset, i - 1) + structure[i - 1][2]

ItemIndex(structure, name) == CHOOSE i \in 1..Len(structure) : structure[i][1] = name

offset_of(structure, initial_offset, name) ==
    ItemOffset(structure, initial_offset, ItemIndex(structure, name))

size_of(structure, name) == structure[ItemIndex(structure, name)][2]

total_size_of(structure, initial_offset) ==
    ItemOffset(structure, initial_offset, Len(structure)) + structure[Len(structure)][2]

\* define_boot_header_layout_common
define_boot_header_layout_common(struct_name, initial_offset, default_layout, structure, ifields, sfields) ==
    [name |-> struct_name,
     offset |-> [f \in IFields \cup SFields |->
                    IF f \in ifields \cup sfields
                    THEN offset_of(structure, initial_offset, f)
                    ELSE default_layout.offset[f]],
     size |-> [f \in SFields |->
                    IF f \in sfields THEN size_of(structure, f)
                    ELSE default_layout.size[f]],
     total_size |-> total_size_of(structure, initial_offset)]

BOOT_HEADER_V0 ==
    define_boot_header_layout_common("BOOT_HEADER_V0", 8, DEFAULT_LAYOUT,
        << <<"kernel_size", u32>>, <<"kernel_addr", u32>>, <<"ramdisk_size", u32>>,
           <<"ramdisk_addr", u32>>, <<"second_size", u32>>, <<"second_addr", u32>>,
           <<"tags_addr", u32>>, <<"page_size", u32>>, <<"header_version", u32>>,
           <<"os_version", u32>>, <<"name", BOOT_NAME_SIZE>>,
           <<"cmdline", BOOT_ARGS_SIZE>>, <<"id", BOOT_ID_SIZE>>,
           <<"extra_cmdline", BOOT_EXTRA_ARGS_SIZE>> >>,
        {"kernel_size", "ramdisk_size", "second_size", "page_size",
         "header_version", "os_version"},
        {"name", "cmdline", "id"})

BOOT_HEADER_V1 ==
    define_boot_header_layout_common("BOOT_HEADER_V1", BOOT_HEADER_V0.total_size,
        BOOT_HEADER_V0,
        << <<"recovery_dtbo_size", u32>>, <<"recovery_dtbo_offset", u64>>,
           <<"header_size", u32>> >>,
        {"recovery_dtbo_size", "recovery_dtbo_offset", "header_size"}, {})

BOOT_HEADER_V2 ==
    define_boot_header_layout_common("BOOT_HEADER_V2", BOOT_HEADER_V1.total_size,
        BOOT_HEADER_V1,
        << <<"dtb_size", u32>>, <<"dtb_addr", u64>> >>,
        {"dtb_size"}, {})

BOOT_HEADER_V3 ==
    define_boot_header_layout_common("BOOT_HEADER_V3", 8, DEFAULT_LAYOUT,
        << <<"kernel_size", u32>>, <<"ramdisk_size", u32>>, <<"os_version", u32>>,
           <<"header_size", u32>>, <<"reserved", 16>>, <<"header_version", u32>>,
           <<"cmdline", BOOT_ARGS_SIZE + BOOT_EXTRA_ARGS_SIZE>> >>,
        {"kernel_size", "ramdisk_size", "header_version", "os_version"},
        {"cmdline"})

BOOT_HEADER_V4 ==
    define_boot_header_layout_common("BOOT_HEADER_V4", BOOT_HEADER_V3.total_size,
        BOOT_HEADER_V3,
        << <<"signature_size", u32>> >>,
        {"signature_size"}, {})

VENDOR_BOOT_HEADER_V3 ==
    define_boot_header_layout_common("VENDOR_BOOT_HEADER_V3", 8, DEFAULT_LAYOUT,
        << <<"header_version", u32>>, <<"page_size", u32>>, <<"kernel_addr", u32>>,
           <<"ramdisk_addr", u32>>, <<"ramdisk_size", u32>>,
           <<"cmdline", VENDOR_BOOT_ARGS_SIZE>>, <<"tags_addr", u32>>,
           <<"name", BOOT_NAME_SIZE>>, <<"header_size", u32>>, <<"dtb_size", u32>>,
           <<"dtb_addr", u64>> >>,
        {"page_size", "ramdisk_size", "header_version", "dtb_size"},
        {"cmdline"})

VENDOR_BOOT_HEADER_V4 ==
    define_boot_header_layout_common("VENDOR_BOOT_HEADER_V4",
        VENDOR_BOOT_HEADER_V3.total_size, VENDOR_BOOT_HEADER_V3,
        << <<"vendor_ramdisk_table_size", u32>>,
           <<"vendor_ramdisk_table_entry_num", u32>>,
           <<"vendor_ramdisk_table_entry_size", u32>>,
           <<"bootconfig_size", u32>> >>,
        {"vendor_ramdisk_table_size", "vendor_ramdisk_table_entry_num",
         "vendor_ramdisk_table_entry_size", "bootconfig_size"}, {})

\* mod_offsets_VendorRamdiskTableEntryV4
VendorRamdiskTableEntryV4_structure ==
    << <<"ramdisk_size", u32>>, <<"ramdisk_offset", u32>>, <<"ramdisk_type", u32>>,
       <<"ramdisk_name", VENDOR_RAMDISK_NAME_SIZE>>,
       <<"board_id", VENDOR_RAMDISK_TABLE_ENTRY_BOARD_ID_SIZE * u32>> >>
VendorRamdiskTableEntryV4_offset(name) ==
    offset_of(VendorRamdiskTableEntryV4_structure, 0, name)
VendorRamdiskTableEntryV4_SIZE == total_size_of(VendorRamdiskTableEntryV4_structure, 0)

\* mod_offsets_AvbFooterLayout
AVB_FOOTER_MAGIC_LEN == 4
AvbFooterLayout_structure ==
    << <<"version_major", u32>>, <<"version_minor", u32>>,
       <<"original_image_size", u64>>, <<"vbmeta_offset", u64>>,
       <<"vbmeta_size", u64>>, <<"reserved", 28>> >>
AvbFooter_offset(name) == offset_of(AvbFooterLayout_structure, AVB_FOOTER_MAGIC_LEN, name)
AvbFooter_SIZE == total_size_of(AvbFooterLayout_structure, AVB_FOOTER_MAGIC_LEN)

\* AvbFooter accessors (big-endian u64)
AvbFooter_get(footer, name) == from_be_bytes(footer, AvbFooter_offset(name))

\* a patch that stores the two values in each other's field
AvbFooter_patch_swapped(footer, original_image_size, vbmeta_offset) ==
    Put(Put(footer, AvbFooter_offset("original_image_size"), to_be_bytes(vbmeta_offset)),
        AvbFooter_offset("vbmeta_offset"), to_be_bytes(original_image_size))

\* AvbFooter::patch
AvbFooter_patch(footer, original_image_size, vbmeta_offset) ==
    Put(Put(footer, AvbFooter_offset("original_image_size"), to_be_bytes(original_image_size)),
        AvbFooter_offset("vbmeta_offset"), to_be_bytes(vbmeta_offset))

\* VendorRamdiskTableEntryV4 accessors and patch
VendorRamdiskTableEntryV4_get(d, name) ==
    from_le_bytes(d, VendorRamdiskTableEntryV4_offset(name))

VendorRamdiskTableEntryV4_patch(d, ramdisk_size, ramdisk_offset) ==
    Put(Put(d, VendorRamdiskTableEntryV4_offset("ramdisk_size"), to_le_bytes(ramdisk_size)),
        VendorRamdiskTableEntryV4_offset("ramdisk_offset"), to_le_bytes(ramdisk_offset))

-----------------------------------------------------------------------------
(* compress.rs: format detection *)

GZIP1_MAGIC == <<31, 139>>
GZIP2_MAGIC == <<31, 158>>
LZOP_MAGIC == <<137, 76, 90, 79>>
XZ_MAGIC == <<253, 55, 122, 88, 90>>
BZIP_MAGIC == <<66, 90, 104>>
LZ4_LEG_MAGIC == <<2, 33, 76, 24>>
LZ41_MAGIC == <<3, 33, 76, 24>>
LZ42_MAGIC == <<4, 34, 77, 24>>

guess_lzma_any_dict(data) ==
    IF data.len <= 13 THEN FALSE
    ELSE IF At(data, 0) # 93 THEN FALSE
    ELSE \A i \in 5..12 : At(data, i) = 255

guess_lzma(data) ==
    IF data.len <= 13 THEN FALSE
    ELSE IF At(data, 0) # 93 THEN FALSE
    ELSE LET dict_size == from_le_bytes(data, 1) IN
         IF dict_size = 0 \/ BitAnd(dict_size, dict_size - 1) # 0 THEN FALSE
         ELSE \A i \in 5..12 : At(data, i) = 255

parse_compress_format(data) ==
    IF StartsWith(data, GZIP1_MAGIC) \/ StartsWith(data, GZIP2_MAGIC) THEN "GZIP"
    ELSE IF StartsWith(data, LZOP_MAGIC) THEN "LZOP"
    ELSE IF StartsWith(data, XZ_MAGIC) THEN "XZ"
    ELSE IF StartsWith(data, BZIP_MAGIC) THEN "BZIP2"
    ELSE IF StartsWith(data, LZ41_MAGIC) \/ StartsWith(data, LZ42_MAGIC) THEN "LZ4"
    ELSE IF StartsWith(data, LZ4_LEG_MAGIC) THEN "LZ4_LEGACY"
    ELSE IF guess_lzma(data) THEN "LZMA"
    ELSE "UNKNOWN"

-----------------------------------------------------------------------------
(* parser.rs: BootHeader *)

BOOT_MAGIC == <<65, 78, 68, 82, 79, 73, 68, 33>>          \* "ANDROID!"
VENDOR_BOOT_MAGIC == <<86, 78, 68, 82, 66, 79, 79, 84>>   \* "VNDRBOOT"

Ok(v) == [kind |-> "Ok", val |-> v]
Err(e) == [kind |-> "Err", err |-> e]
Abort(e) == [kind |-> "Panic", err |-> e]

\* impl_ifield_accessor: has_F / get_F
has(h, f) == h.layout.offset[f] # 0
get(h, f) == from_le_bytes(h.data, h.layout.offset[f])

android_layout(version) ==
    CASE version = 0 -> Some(BOOT_HEADER_V0)
      [] version = 1 -> Some(BOOT_HEADER_V1)
      [] version = 2 -> Some(BOOT_HEADER_V2)
      [] version = 3 -> Some(BOOT_HEADER_V3)
      [] version = 4 -> Some(BOOT_HEADER_V4)
      [] OTHER -> None

vendor_layout(version) ==
    CASE version = 3 -> Some(VENDOR_BOOT_HEADER_V3)
      [] version = 4 -> Some(VENDOR_BOOT_HEADER_V4)
      [] OTHER -> None

\* the byte offsets BootHeader::parse reads the version from
kernel_size_offset == BOOT_HEADER_V0.offset["kernel_size"]
android_version_offset == BOOT_HEADER_V0.offset["header_version"]
vendor_version_offset == VENDOR_BOOT_HEADER_V3.offset["header_version"]

\* the tail of BootHeader::parse once the layout is selected:
\* &data[..layout.total_size] panics on a shorter input
header_view(data, layout, family, version) ==
    IF layout.total_size > data.len THEN Abort("range end index out of range")
    ELSE Ok([data |-> Slice(data, 0, layout.total_size),
             layout |-> layout,
             version |-> <<family, version>>])

BootHeader_parse(data) ==
    IF StartsWith(data, BOOT_MAGIC) THEN
        LET version == u32_at(data, android_version_offset) IN
        IF IsSome(version) THEN
            LET layout == android_layout(Unwrap(version)) IN
            IF IsSome(layout)
            THEN header_view(data, Unwrap(layout), "Android", Unwrap(version))
            ELSE Err("unsupported boot version")
        ELSE Err("invalid boot image")
    ELSE IF StartsWith(data, VENDOR_BOOT_MAGIC) THEN
        LET version == u32_at(data, vendor_version_offset) IN
        IF IsSome(version) THEN
            LET layout == vendor_layout(Unwrap(version)) IN
            IF IsSome(layout)
            THEN header_view(data, Unwrap(layout), "Vendor", Unwrap(version))
            ELSE Err("unsupported vendor boot version")
        ELSE Err("invalid boot image")
    ELSE Err("invalid boot image")

page_size_v4only(h) ==
    IF h.version[1] = "Android" /\ h.version[2] >= 4 THEN 4096
    ELSE get(h, "page_size")

page_size(h) ==
    IF h.version[1] = "Android" /\ h.version[2] >= 3 THEN 4096
    ELSE get(h, "page_size")

hdr_space(h) == align_to(h.layout.total_size, page_size(h))

-----------------------------------------------------------------------------
(* parser.rs: BootImageBlocks::parse *)

BlockNames == <<"kernel", "ramdisk", "second", "recovery_dtbo", "dtb",
                "signature", "vendor_ramdisk_table", "bootconfig">>
Blocks == {BlockNames[i] : i \in 1..Len(BlockNames)}

size_field ==
    [kernel |-> "kernel_size", ramdisk |-> "ramdisk_size", second |-> "second_size",
     recovery_dtbo |-> "recovery_dtbo_size", dtb |-> "dtb_size",
     signature |-> "signature_size",
     vendor_ramdisk_table |-> "vendor_ramdisk_table_size",
     bootconfig |-> "bootconfig_size"]

\* a sub-slice of the source image: where it starts and how long it is
Sl(off, size) == [off |-> off, size |-> size]
DataOf(data, sl) == Slice(data, sl.off, sl.off + sl.size)

\* a walk that drops a block that is out of range instead of failing
RECURSIVE build_blocks_lenient(_, _, _, _, _, _)
build_blocks_lenient(data, h, page, i, off, acc) ==
    IF i > Len(BlockNames) THEN Ok([blocks |-> acc, off |-> off])
    ELSE LET name == BlockNames[i] IN
         IF has(h, size_field[name]) /\ get(h, size_field[name]) > 0
            /\ IsSome(Get(data, off, off + get(h, size_field[name])))
         THEN LET a == align_to(get(h, size_field[name]), page) IN
              IF a = Panic THEN Abort("invalid alignment")
              ELSE build_blocks_lenient(data, h, page, i + 1, off + a,
                       [acc EXCEPT ![name] = Some(Sl(off, get(h, size_field[name])))])
         ELSE build_blocks_lenient(data, h, page, i + 1, off, acc)

\* build_blocks!: the walk over the canonical block list, from block i on
RECURSIVE build_blocks(_, _, _, _, _, _)
build_blocks(data, h, page, i, off, acc) ==
    IF i > Len(BlockNames) THEN Ok([blocks |-> acc, off |-> off])
    ELSE LET name == BlockNames[i] IN
         IF has(h, size_field[name]) THEN
             LET size == get(h, size_field[name]) IN
             IF size > 0 THEN
                 IF IsSome(Get(data, off, off + size)) THEN
                     LET a == align_to(size, page) IN
                     IF a = Panic THEN Abort("invalid alignment")
                     ELSE build_blocks(data, h, page, i + 1, off + a,
                                       [acc EXCEPT ![name] = Some(Sl(off, size))])
                 ELSE Err("invalid block")
             ELSE build_blocks(data, h, page, i + 1, off, acc)
         ELSE build_blocks(data, h, page, i + 1, off, acc)

\* the vendor ramdisk entries: entry_table.chunks(entry_size), from chunk i on
RECURSIVE vendor_entries(_, _, _, _, _, _)
vendor_entries(data, table, ramdisk, n, i, vec) ==
    IF i >= n THEN Ok(vec)
    ELSE LET d == Slice(DataOf(data, table), i * VendorRamdiskTableEntryV4_SIZE,
                        (i + 1) * VendorRamdiskTableEntryV4_SIZE)
             off == VendorRamdiskTableEntryV4_get(d, "ramdisk_offset")
             sz == VendorRamdiskTableEntryV4_get(d, "ramdisk_size")
             raw == VendorRamdiskTableEntryV4_get(d, "ramdisk_type")
         IN IF IsSome(Get(DataOf(data, ramdisk), off, off + sz)) THEN
                vendor_entries(data, table, ramdisk, n, i + 1,
                    Append(vec, [data |-> Sl(ramdisk.off + off, sz),
                                 entry_size |-> sz,
                                 entry_offset |-> off,
                                 entry_type |-> raw,
                                 compress_format |->
                                     parse_compress_format(
                                         Slice(data, ramdisk.off + off, ramdisk.off + off + sz)),
                                 entry |-> d]))
            ELSE Err("invalid vendor ramdisk entry")

\* a table parse that takes the header's entry size on trust
parse_vendor_ramdisk_table_any_size(data, h, raw) ==
    IF IsSome(raw["vendor_ramdisk_table"]) THEN
        LET entry_table == Unwrap(raw["vendor_ramdisk_table"])
            entry_table_size == get(h, "vendor_ramdisk_table_entry_num")
                                    * get(h, "vendor_ramdisk_table_entry_size")
        IN IF entry_table.size < entry_table_size
           THEN Err("invalid vendor ramdisk table size")
           ELSE IF ~IsSome(raw["ramdisk"]) THEN Err("missing ramdisk")
           ELSE LET r == vendor_entries(data, entry_table, Unwrap(raw["ramdisk"]),
                                        get(h, "vendor_ramdisk_table_entry_num"), 0, <<>>)
                IN IF r.kind = "Ok" THEN Ok(Some(r.val)) ELSE r
    ELSE Ok(None)

parse_vendor_ramdisk_table(data, h, raw) ==
    IF IsSome(raw["vendor_ramdisk_table"]) THEN
        LET entry_table == Unwrap(raw["vendor_ramdisk_table"])
            entry_size == get(h, "vendor_ramdisk_table_entry_size")
            entry_table_size == get(h, "vendor_ramdisk_table_entry_num") * entry_size
        IN IF entry_size # VendorRamdiskTableEntryV4_SIZE
           THEN Err("invalid vendor ramdisk table entry size")
           ELSE IF entry_table.size < entry_table_size
           THEN Err("invalid vendor ramdisk table size")
           ELSE IF ~IsSome(raw["ramdisk"]) THEN Err("missing ramdisk")
           ELSE LET r == vendor_entries(data, entry_table, Unwrap(raw["ramdisk"]),
                                        get(h, "vendor_ramdisk_table_entry_num"), 0, <<>>)
                IN IF r.kind = "Ok" THEN Ok(Some(r.val)) ELSE r
    ELSE Ok(None)

BootImageBlocks_parse(data, h) ==
    LET off0 == hdr_space(h) IN
    IF off0 = Panic THEN Abort("invalid alignment")
    ELSE
    LET walk == build_blocks(data, h, page_size(h), 1, off0, [b \in Blocks |-> None]) IN
    IF walk.kind # "Ok" THEN walk
    ELSE
    LET raw == walk.val.blocks
        table == parse_vendor_ramdisk_table(data, h, raw)
    IN
    IF table.kind # "Ok" THEN table
    ELSE Ok([blocks |->
               [kernel |->
                    IF IsSome(raw["kernel"])
                    THEN Some([data |-> Unwrap(raw["kernel"]),
                               compress_format |->
                                   parse_compress_format(DataOf(data, Unwrap(raw["kernel"])))])
                    ELSE None,
                ramdisk |->
                    IF IsSome(raw["ramdisk"])
                    THEN Some([data |-> Unwrap(raw["ramdisk"]),
                               compress_format |->
                                   IF ~IsSome(table.val)
                                   THEN parse_compress_format(DataOf(data, Unwrap(raw["ramdisk"])))
                                   ELSE "UNKNOWN",
                               vendor_ramdisk_table |-> table.val])
                    ELSE None,
                second |-> raw["second"],
                recovery_dtbo |-> raw["recovery_dtbo"],
                dtb |-> raw["dtb"],
                signature |-> raw["signature"],
                bootconfig |-> raw["bootconfig"]],
             raw |-> raw,
             off |-> walk.val.off])

-----------------------------------------------------------------------------
(* parser.rs: BootImage::parse *)

parse_avb_info(data, tail) ==
    LET avb_footer == Sl(data.len - AvbFooter_SIZE, AvbFooter_SIZE)
        footer == DataOf(data, avb_footer)
    IN
    IF data.len < AvbFooter_SIZE THEN
        (IF overflow_checks THEN Abort("attempt to subtract with overflow") ELSE Ok(None))
    ELSE IF StartsWith(footer, AVB_FOOTER_MAGIC) THEN
        LET off == AvbFooter_get(footer, "vbmeta_offset")
            vsz == AvbFooter_get(footer, "vbmeta_size")
        IN
        IF off # Huge /\ vsz # Huge /\ IsSome(Get(data, off, off + vsz)) THEN
            IF StartsWith(Slice(data, off, off + vsz), AVB_MAGIC) THEN
                LET avb_payload_size == AvbFooter_get(footer, "original_image_size") IN
                IF avb_payload_size < tail THEN Err("invalid avb original image size")
                ELSE Ok(Some([avb_tail |->
                                 IF avb_payload_size > tail /\ avb_payload_size <= data.len
                                 THEN Some(Sl(tail, avb_payload_size - tail))
                                 ELSE None,
                              avb_header |-> Sl(off, vsz),
                              avb_footer |-> avb_footer]))
            ELSE Err("invalid avb header magic")
        ELSE Err("invalid avb header")
    ELSE Ok(None)

BootImage_parse(data) ==
    LET header == BootHeader_parse(data) IN
    IF header.kind # "Ok" THEN [header EXCEPT !.err = <<"header", header.err>>]
    ELSE
    LET blocks == BootImageBlocks_parse(data, header.val) IN
    IF blocks.kind # "Ok" THEN [blocks EXCEPT !.err = <<"blocks", blocks.err>>]
    ELSE
    LET avb_info == parse_avb_info(data, blocks.val.off) IN
    IF avb_info.kind # "Ok" THEN [avb_info EXCEPT !.err = <<"avb", avb_info.err>>]
    ELSE Ok([header |-> header.val,
             blocks |-> blocks.val.blocks,
             raw |-> blocks.val.raw,
             tail |-> blocks.val.off,
             avb_info |-> avb_info.val])

-----------------------------------------------------------------------------
(* compress.rs: get_encoder.  The codecs are external libraries; an encoded *)
(* stream is modelled as the format's header followed by the payload.       *)

LZMA_HEADER == <<93, 0, 0, 128, 0, 255, 255, 255, 255, 255, 255, 255, 255>>

encoder_header(format) ==
    CASE format = "GZIP" -> GZIP1_MAGIC
      [] format = "ZOPFLI" -> GZIP1_MAGIC
      [] format = "XZ" -> XZ_MAGIC
      [] format = "BZIP2" -> BZIP_MAGIC
      [] format = "LZ4" -> LZ42_MAGIC
      [] format = "LZ4_LEGACY" -> LZ4_LEG_MAGIC
      [] format = "LZMA" -> LZMA_HEADER

\* get_encoder(format, w), the stream copied through it, and finish():
\* the bytes that reach w; UNKNOWN and LZOP hit unreachable!()
get_encoder(format, stream) ==
    IF format \in {"GZIP", "ZOPFLI", "XZ", "BZIP2", "LZ4", "LZ4_LEGACY", "LZMA"}
    THEN Ok(Concat(FromSeq(encoder_header(format)), stream))
    ELSE Abort("unreachable")

-----------------------------------------------------------------------------
(* compress.rs: get_decoder, and parser.rs: dump_block and the dump        *)
(* methods.  The decoders are third-party code: whether one accepts a      *)
(* stream is an input of the model, and the bytes it yields are those      *)
(* behind the format's header, the reverse of get_encoder above.           *)

\* get_decoder(format, r): the decoder of the format, or unreachable!()
get_decoder(format) ==
    IF format \in {"XZ", "LZMA", "BZIP2", "LZ4", "LZ4_LEGACY", "ZOPFLI", "GZIP"}
    THEN Ok(format)
    ELSE Abort("internal error: entered unreachable code")

\* std::io::copy(decoder, out): the bytes that reach out
decoder_copy(format, data, decodes) ==
    IF decodes THEN Ok(Slice(data, Min(Len(encoder_header(format)), data.len), data.len))
    ELSE Err("corrupt stream")

\* dump_block(data, out, raw): the format detected, the format handed to
\* get_decoder, and the bytes written to out
dump_block(data, raw, decodes) ==
    LET format == parse_compress_format(data) IN
    IF ~raw /\ format # "UNKNOWN" THEN
        LET decoder == get_decoder(format) IN
        [format |-> format, decoder |-> format,
         result |-> IF decoder.kind = "Ok" THEN decoder_copy(format, data, decodes)
                    ELSE decoder]
    ELSE [format |-> IF raw THEN "none" ELSE format, decoder |-> "none",
          result |-> Ok(data)]

\* KernelImage::dump
KernelImage_dump(image, kernel, raw, decodes) ==
    dump_block(DataOf(image, kernel.data), raw, decodes)
\* RamdiskImage::dump
RamdiskImage_dump(image, ramdisk, raw, decodes) ==
    IF IsSome(ramdisk.vendor_ramdisk_table)
    THEN [format |-> "none", decoder |-> "none", result |-> Err("")]
    ELSE dump_block(DataOf(image, ramdisk.data), raw, decodes)
\* VendorRamdiskEntry::dump
VendorRamdiskEntry_dump(image, entry, raw, decodes) ==
    dump_block(DataOf(image, entry.data), raw, decodes)

-----------------------------------------------------------------------------
(* utils.rs: Chunker, and compress.rs: LZ4BlockEncoder.  The sink of the   *)
(* encoder is the sequence of its writes; the output of the lz4 library    *)
(* for a chunk is a value that names the chunk.                            *)

LZ4_BLOCK_SIZE == 8388608
LZ4HC_CLEVEL_MAX == 12
\* 0x184c2102
LZ4_MAGIC == 407642370

\* Chunker::new; chunk holds the bytes chunk[..pos], the rest is never read
Chunker_new(chunk_size) == [chunk |-> Empty, chunk_size |-> chunk_size, pos |-> 0]

\* Chunker::add_data: the chunker after the call, the remaining buf and the
\* chunk, if one is complete
Chunker_add_data(c, buf) ==
    IF c.pos > 0 THEN
        LET len == Min(c.chunk_size - c.pos, buf.len)
            filled == Concat(c.chunk, Slice(buf, 0, len))
        IN IF c.pos + len = c.chunk_size
           THEN [chunker |-> [c EXCEPT !.pos = 0, !.chunk = Empty],
                 buf |-> Slice(buf, len, buf.len), chunk |-> Some(filled)]
           ELSE [chunker |-> [c EXCEPT !.pos = c.pos + len, !.chunk = filled],
                 buf |-> Slice(buf, len, buf.len), chunk |-> None]
    ELSE IF buf.len >= c.chunk_size THEN
        [chunker |-> c, buf |-> Slice(buf, c.chunk_size, buf.len),
         chunk |-> Some(Slice(buf, 0, c.chunk_size))]
    ELSE [chunker |-> [c EXCEPT !.pos = c.pos + buf.len, !.chunk = Concat(c.chunk, buf)],
          buf |-> Empty, chunk |-> None]

\* Chunker::get_available
Chunker_get_available(c) ==
    [chunker |-> [c EXCEPT !.pos = 0, !.chunk = Empty], chunk |-> c.chunk]

\* write_pod(&u32) on the sink
write_pod(write, v) == Append(write, [kind |-> "u32", val |-> v, of |-> Empty])

\* LZ4BlockEncoder::encode_block: the compressed size, then the compressed
\* bytes of the chunk
encode_block(write, chunk) ==
    write \o << [kind |-> "block_size", val |-> LZ4HC_CLEVEL_MAX, of |-> chunk],
                [kind |-> "block", val |-> LZ4HC_CLEVEL_MAX, of |-> chunk] >>

\* LZ4BlockEncoder::new
LZ4BlockEncoder_new(is_lg) ==
    [write |-> <<>>, chunker |-> Chunker_new(LZ4_BLOCK_SIZE), total |-> 0, is_lg |-> is_lg]

\* the loop of write_all: while !buf.is_empty()
RECURSIVE write_all_loop(_, _)
write_all_loop(e, buf) ==
    IF buf.len = 0 THEN e
    ELSE LET r == Chunker_add_data(e.chunker, buf) IN
         write_all_loop([e EXCEPT !.chunker = r.chunker,
                                  !.write = IF IsSome(r.chunk)
                                            THEN encode_block(e.write, Unwrap(r.chunk))
                                            ELSE e.write],
                        r.buf)

\* <LZ4BlockEncoder as Write>::write_all; total stays below 2^31 here
LZ4BlockEncoder_write_all(e, buf) ==
    write_all_loop([e EXCEPT !.write = IF e.total = 0 THEN write_pod(e.write, LZ4_MAGIC)
                                       ELSE e.write,
                             !.total = e.total + buf.len],
                   buf)

\* <LZ4BlockEncoder as WriteFinish>::finish: the sink
LZ4BlockEncoder_finish(e) ==
    LET r == Chunker_get_available(e.chunker)
        flushed == IF r.chunk.len # 0 THEN encode_block(e.write, r.chunk) ELSE e.write
    IN IF e.is_lg THEN write_pod(flushed, e.total) ELSE flushed

-----------------------------------------------------------------------------
(* patcher.rs: the output sink (BootImageOutput: Read + Write + Seek) *)

truncate(o, size) ==
    [o EXCEPT !.data = IF size <= o.data.len THEN Slice(o.data, 0, size)
                       ELSE [len |-> size, nz |-> o.data.nz]]
seek_start(o, n) == [o EXCEPT !.cur = n]
seek_end(o, back) == [o EXCEPT !.cur = o.data.len - back]
write_all(o, d) == [data |-> Put(o.data, o.cur, d), cur |-> o.cur + d.len]

Log(op, what, off, len) == [op |-> op, what |-> what, off |-> off, len |-> len]

\* the builder
NoOption ==
    [calls |-> 0,
     replace_ramdisk |-> None,
     replace_kernel |-> None,
     replace_vendor_ramdisk |-> <<>>,
     override_cmdline |-> None,
     override_os_version |-> None]

ReplacePayload(data, compressed) == [data |-> data, compressed |-> compressed]

source == boot.val
page == page_size(source.header)

\* file_align!(): pos = output.seek(SeekFrom::Start(align_to(pos, page_size)))
file_align_with(st, alignment) ==
    LET a == align_to(st.p.pos, alignment) IN
    IF a = Panic THEN [st EXCEPT !.fail = "Panic"]
    ELSE [st EXCEPT !.out = seek_start(st.out, a), !.p.pos = a]

file_align(st) == file_align_with(st, page)

\* the copy of one stream into the sink, through an encoder unless the
\* format is UNKNOWN; pos = output.seek(SeekFrom::Current(0))
emit(st, what, stream, format) ==
    LET bytes == IF format = "UNKNOWN" THEN Ok(stream) ELSE get_encoder(format, stream) IN
    IF bytes.kind # "Ok" THEN [st EXCEPT !.fail = "Panic", !.p.err = bytes.err]
    ELSE LET o == write_all(st.out, bytes.val) IN
         [st EXCEPT !.out = o,
                    !.p.pos = o.cur,
                    !.ops = Append(st.ops, Log("write", what, st.out.cur, bytes.val.len))]

St == [out |-> out, p |-> p, ops |-> ops, fail |-> "no"]

\* commit the result of a step: the sink, the locals and the log, and the
\* next position (or the failure)
Commit(st, next) ==
    /\ out' = st.out
    /\ p' = st.p
    /\ ops' = st.ops
    /\ pc' = CASE st.fail = "no" -> next
               [] st.fail = "Err" -> "patch_failed"
               [] st.fail = "Panic" -> "patch_aborted"
    /\ UNCHANGED <<src, overflow_checks, boot, opt>>
    /\ UNCHANGED toolvars

-----------------------------------------------------------------------------
(* patcher.rs: BootImagePatchOption::patch, step by step *)

Fail(st, how) == [st EXCEPT !.fail = how]

\* bail!(msg): patch returns the error
bail(st, msg) == [Fail(st, "Err") EXCEPT !.p.err = msg]
\* file_align!() after a step that did not fail
then_file_align(st) == IF st.fail # "no" THEN st ELSE file_align(st)

\* output.truncate(source.data.len()); output.seek(Start(0)); let mut pos = 0
truncate_step(st) ==
    [st EXCEPT !.out = seek_start(truncate(st.out, src.len), 0),
               !.p.pos = 0,
               !.ops = Append(st.ops, Log("truncate", "output", 0, src.len))]

\* the variant of the header step that applies override_cmdline
header_step_overriding(st) ==
    LET space == hdr_space(source.header)
        offset == source.header.layout.offset["cmdline"]
    IN IF ~IsSome(Get(src, 0, space)) THEN Fail(st, "Panic")
       ELSE LET bytes == IF IsSome(opt.override_cmdline) /\ offset # 0
                         THEN Put(Slice(src, 0, space), offset, Unwrap(opt.override_cmdline))
                         ELSE Slice(src, 0, space)
            IN [st EXCEPT !.p.header_off = st.out.cur,
                          !.out = write_all(st.out, bytes),
                          !.p.pos = st.p.pos + space,
                          !.ops = Append(st.ops, Log("write", "header", st.out.cur, space))]

\* header_off = output.seek(Current(0)); write_all(&data[..hdr_space]); pos += hdr_space
header_step(st) ==
    LET space == hdr_space(source.header) IN
    IF ~IsSome(Get(src, 0, space)) THEN Fail(st, "Panic")
    ELSE [st EXCEPT !.p.header_off = st.out.cur,
                    !.out = write_all(st.out, Slice(src, 0, space)),
                    !.p.pos = st.p.pos + space,
                    !.ops = Append(st.ops, Log("write", "header", st.out.cur, space))]

\* the emission of the kernel, or of the ramdisk of an image without a vendor
\* ramdisk table: the replacement if there is one, else the source block
emit_block(st, name, replace, orig) ==
    LET block_off == st.p.pos IN
    IF IsSome(replace) \/ IsSome(orig) THEN
        LET stream == IF IsSome(replace) THEN Unwrap(replace).data
                      ELSE DataOf(src, Unwrap(orig).data)
            compressed == IF IsSome(replace) THEN Unwrap(replace).compressed ELSE TRUE
        IN
        IF ~compressed /\ ~IsSome(orig)
        THEN bail(st, "Could not determine compression format")
        ELSE LET format == IF compressed THEN "UNKNOWN" ELSE Unwrap(orig).compress_format
                 st1 == emit(st, name, stream, format)
             IN IF st1.fail # "no" THEN st1
                ELSE [st1 EXCEPT !.p.off[name] = block_off,
                                 !.p.size[name] = st1.p.pos - block_off]
    ELSE [st EXCEPT !.p.off[name] = block_off, !.p.size[name] = 0]

kernel_step(st) ==
    then_file_align(emit_block(st, "kernel", opt.replace_kernel, source.blocks.kernel))

\* the variant of the loop that records each entry's offset in the image
RECURSIVE vendor_loop_absolute(_, _, _)
vendor_loop_absolute(st, index, ramdisk_off) ==
    IF index >= Len(st.p.table) THEN st
    ELSE LET entry == st.p.table[index + 1]
             replaced == index \in DOMAIN opt.replace_vendor_ramdisk
             stream == IF replaced THEN opt.replace_vendor_ramdisk[index].data
                       ELSE DataOf(src, entry.data)
             compressed == IF replaced THEN opt.replace_vendor_ramdisk[index].compressed
                           ELSE TRUE
             format == IF compressed THEN "UNKNOWN" ELSE entry.compress_format
             entry_off == st.p.pos
             st1 == emit(st, "vendor_ramdisk", stream, format)
         IN IF st1.fail # "no" THEN st1
            ELSE vendor_loop_absolute(
                    [st1 EXCEPT !.p.table[index + 1].entry_offset = entry_off,
                                !.p.table[index + 1].entry_size = st1.p.pos - entry_off],
                    index + 1, ramdisk_off)

\* the loop over the cloned vendor ramdisk table, from entry index on
RECURSIVE vendor_loop(_, _, _)
vendor_loop(st, index, ramdisk_off) ==
    IF index >= Len(st.p.table) THEN st
    ELSE LET entry == st.p.table[index + 1]
             replaced == index \in DOMAIN opt.replace_vendor_ramdisk
             stream == IF replaced THEN opt.replace_vendor_ramdisk[index].data
                       ELSE DataOf(src, entry.data)
             compressed == IF replaced THEN opt.replace_vendor_ramdisk[index].compressed
                           ELSE TRUE
             format == IF compressed THEN "UNKNOWN" ELSE entry.compress_format
             entry_off == st.p.pos
             st1 == emit(st, "vendor_ramdisk", stream, format)
         IN IF st1.fail # "no" THEN st1
            ELSE vendor_loop(
                    [st1 EXCEPT !.p.table[index + 1].entry_offset = entry_off - ramdisk_off,
                                !.p.table[index + 1].entry_size = st1.p.pos - entry_off],
                    index + 1, ramdisk_off)

source_vendor_table ==
    IF IsSome(source.blocks.ramdisk)
    THEN Unwrap(source.blocks.ramdisk).vendor_ramdisk_table
    ELSE None

ramdisk_emit(st) ==
    LET ramdisk_off == st.p.pos IN
    IF IsSome(source_vendor_table) THEN
        IF IsSome(opt.replace_ramdisk)
        THEN bail(st, "Could not replace ramdisk for vendor boot v4")
        ELSE IF \E index \in DOMAIN opt.replace_vendor_ramdisk :
                    index >= Len(Unwrap(source_vendor_table))
        THEN bail(st, "invalid index")
        ELSE LET st1 == vendor_loop([st EXCEPT !.p.table = Unwrap(source_vendor_table),
                                               !.p.has_table = TRUE],
                                    0, ramdisk_off)
             IN IF st1.fail # "no" THEN st1
                ELSE [st1 EXCEPT !.p.off["ramdisk"] = ramdisk_off,
                                 !.p.size["ramdisk"] = st1.p.pos - ramdisk_off]
    ELSE
        IF DOMAIN opt.replace_vendor_ramdisk # {}
        THEN bail(st, "Could not replace vendor ramdisk")
        ELSE emit_block(st, "ramdisk", opt.replace_ramdisk, source.blocks.ramdisk)

ramdisk_step(st) == then_file_align(ramdisk_emit(st))

\* copy_block!(name)
copy_block(st, name) ==
    LET block_off == st.p.pos
        st1 == IF IsSome(source.blocks[name])
               THEN LET d == DataOf(src, Unwrap(source.blocks[name]))
                        o == write_all(st.out, d)
                    IN [st EXCEPT !.out = o,
                                  !.p.pos = o.cur,
                                  !.p.size[name] = o.cur - block_off,
                                  !.ops = Append(st.ops, Log("write", name, st.out.cur, d.len))]
               ELSE [st EXCEPT !.p.size[name] = 0]
    IN file_align([st1 EXCEPT !.p.off[name] = block_off])

\* the vendor_ramdisk_table block: every entry patched with its new size and offset
RECURSIVE write_entries(_, _)
write_entries(st, i) ==
    IF i > Len(st.p.table) THEN st
    ELSE LET entry == st.p.table[i]
             d == VendorRamdiskTableEntryV4_patch(entry.entry, entry.entry_size,
                                                  entry.entry_offset)
         IN write_entries(
                [st EXCEPT !.out = write_all(st.out, d),
                           !.ops = Append(st.ops, Log("write", "vendor_ramdisk_table",
                                                      st.out.cur, d.len))],
                i + 1)

\* the variant of the table step that copies the bootconfig block first
table_after_bootconfig_step(st) ==
    LET st0 == copy_block(st, "bootconfig")
        table_off == st0.p.pos
    IN IF st0.p.has_table THEN
           LET st1 == write_entries(st0, 1) IN
           [st1 EXCEPT !.p.pos = st1.out.cur,
                       !.p.off["vendor_ramdisk_table"] = table_off,
                       !.p.size["vendor_ramdisk_table"] = st1.out.cur - table_off]
       ELSE [st0 EXCEPT !.p.off["vendor_ramdisk_table"] = table_off,
                        !.p.size["vendor_ramdisk_table"] = 0]

vendor_ramdisk_table_step(st) ==
    LET table_off == st.p.pos IN
    IF st.p.has_table THEN
        LET st1 == write_entries(st, 1) IN
        [st1 EXCEPT !.p.pos = st1.out.cur,
                    !.p.off["vendor_ramdisk_table"] = table_off,
                    !.p.size["vendor_ramdisk_table"] = st1.out.cur - table_off]
    ELSE [st EXCEPT !.p.off["vendor_ramdisk_table"] = table_off,
                    !.p.size["vendor_ramdisk_table"] = 0]

\* Copy and patch AVB
avb_step(st) ==
    IF IsSome(source.avb_info) THEN
        LET avb_info == Unwrap(source.avb_info)
            st1 == IF IsSome(avb_info.avb_tail)
                   THEN LET d == DataOf(src, Unwrap(avb_info.avb_tail))
                            o == write_all(st.out, d)
                        IN [st EXCEPT !.out = o, !.p.pos = o.cur,
                                      !.ops = Append(st.ops, Log("write", "avb_tail",
                                                                 st.out.cur, d.len))]
                   ELSE st
            st2 == file_align(st1)
            total_size == st2.p.pos
            st3 == file_align_with(st2, 4096)
            avb_header_off == st3.p.pos
            header == DataOf(src, avb_info.avb_header)
            st4 == [st3 EXCEPT !.out = write_all(st3.out, header),
                               !.ops = Append(st3.ops, Log("write", "avb_header",
                                                           st3.out.cur, header.len))]
            st5 == [st4 EXCEPT !.out = seek_end(st4.out, AvbFooter_SIZE)]
            footer == AvbFooter_patch(DataOf(src, avb_info.avb_footer),
                                      total_size, avb_header_off)
        IN [st5 EXCEPT !.out = write_all(st5.out, footer),
                       !.p.total_size = total_size,
                       !.p.avb_header_off = avb_header_off,
                       !.ops = Append(st5.ops, Log("write", "avb_footer",
                                                   st5.out.cur, footer.len))]
    ELSE st

\* patch_size!(name), for the blocks from i on
RECURSIVE patch_size(_, _)
patch_size(st, i) ==
    IF i > Len(BlockNames) THEN st
    ELSE LET name == BlockNames[i]
             offset == source.header.layout.offset[size_field[name]]
         IN IF offset # 0 THEN
                LET o == seek_start(st.out, st.p.header_off + offset) IN
                patch_size([st EXCEPT !.out = write_all(o, to_le_bytes(st.p.size[name])),
                                      !.ops = Append(st.ops, Log("write", size_field[name],
                                                                 o.cur, 4))],
                           i + 1)
            ELSE patch_size(st, i + 1)

patch_header_skipped(st) == st

patch_header_step(st) == patch_size(st, 1)

flush_step(st) == [st EXCEPT !.ops = Append(st.ops, Log("flush", "output", 0, 0))]

-----------------------------------------------------------------------------
(* The source images the model is run on.  An image is built from a short   *)
(* description: the header variant, the header's field values, and how the  *)
(* file ends (with or without an AVB footer).  Blocks are laid out the way  *)
(* mkbootimg lays them out: each at the next multiple of the page size.     *)

MaxEntries == 2     \* vendor ramdisk table entries of a generated image
MaxCalls == 1       \* builder calls before patch()

RoundUp(n, a) == ((n + a - 1) \div a) * a

LayoutOf(fam, ver) ==
    IF fam = "Android" THEN Unwrap(android_layout(ver)) ELSE Unwrap(vendor_layout(ver))

Tag == [kernel |-> 75, ramdisk |-> 82, second |-> 83, recovery_dtbo |-> 79,
        dtb |-> 68, signature |-> 71, vendor_ramdisk_table |-> 84, bootconfig |-> 67]

FormatPrefix(fmt) ==
    CASE fmt = "GZIP" -> GZIP1_MAGIC
      [] fmt = "LZ4_LEGACY" -> LZ4_LEG_MAGIC
      [] fmt = "LZOP" -> LZOP_MAGIC
      [] fmt = "XZ" -> XZ_MAGIC
      [] OTHER -> <<>>

\* size bytes: a format prefix, zeros, and the tag as the last byte
Content(tag, size, fmt) ==
    IF size = 0 THEN Empty
    ELSE Put(Put(Zeros(size), 0, Slice(FromSeq(FormatPrefix(fmt)), 0,
                                       Min(Len(FormatPrefix(fmt)), size - 1))),
             size - 1, FromSeq(<<tag>>))

\* the vendor ramdisk entries of a description: k entries of EntryLen bytes,
\* back to back from offset 0 of the ramdisk block
EntryLen == 40
EntryRecord(i, off, size) ==
    Put(Put(Put(Put(Zeros(VendorRamdiskTableEntryV4_SIZE),
                    VendorRamdiskTableEntryV4_offset("ramdisk_size"), to_le_bytes(size)),
                VendorRamdiskTableEntryV4_offset("ramdisk_offset"), to_le_bytes(off)),
            VendorRamdiskTableEntryV4_offset("ramdisk_type"), to_le_bytes(1 + (i % 2))),
        VendorRamdiskTableEntryV4_offset("ramdisk_name"), FromSeq(<<114, 48 + i>>))

RECURSIVE PutAll(_, _)
PutAll(b, writes) ==
    IF writes = <<>> THEN b
    ELSE PutAll(Put(b, writes[1][1], writes[1][2]), Tail(writes))

\* a description
Desc(fam, ver, pagef, ksz, rsz, extra, avb, cut) ==
    [fam |-> fam, ver |-> ver, page |-> pagef,
     sz |-> [kernel |-> ksz, ramdisk |-> rsz,
             second |-> IF extra THEN 10 ELSE 0,
             recovery_dtbo |-> IF extra THEN 20 ELSE 0,
             dtb |-> IF extra THEN 30 ELSE 0,
             signature |-> IF extra THEN 50 ELSE 0,
             vendor_ramdisk_table |-> 0,
             bootconfig |-> IF extra THEN 7 ELSE 0],
     entries |-> <<>>, entry_size |-> 0, entry_num |-> 0,
     kfmt |-> "GZIP", rfmt |-> "LZ4_LEGACY",
     avb |-> avb, cut |-> cut]

\* a vendor v4 description with a table of entries (each <<offset, size>>)
VendorDesc(pagef, entries, rsz, tsz, extra, avb) ==
    [Desc("Vendor", 4, pagef, 0, rsz, extra, avb, 0) EXCEPT
        !.sz["vendor_ramdisk_table"] = tsz,
        !.entries = entries,
        !.entry_size = VendorRamdiskTableEntryV4_SIZE,
        !.entry_num = Len(entries)]

Present(d, name) == LayoutOf(d.fam, d.ver).offset[size_field[name]] # 0 /\ d.sz[name] > 0

EffPage(d) ==
    IF d.fam = "Android" /\ d.ver >= 3 THEN 4096
    ELSE IF d.page = 0 THEN 1 ELSE d.page

\* where block i starts in the image of d
RECURSIVE StartOf(_, _)
StartOf(d, i) ==
    IF i = 1 THEN RoundUp(LayoutOf(d.fam, d.ver).total_size, EffPage(d))
    ELSE StartOf(d, i - 1) +
         (IF Present(d, BlockNames[i - 1])
          THEN RoundUp(d.sz[BlockNames[i - 1]], EffPage(d)) ELSE 0)

BlocksEnd(d) == StartOf(d, Len(BlockNames) + 1)

U32Fields ==
    <<"kernel_size", "ramdisk_size", "second_size", "page_size", "header_version",
      "os_version", "recovery_dtbo_size", "header_size", "dtb_size", "signature_size",
      "vendor_ramdisk_table_size", "vendor_ramdisk_table_entry_num",
      "vendor_ramdisk_table_entry_size", "bootconfig_size">>

HeaderBytes(d) ==
    LET layout == LayoutOf(d.fam, d.ver)
        vals == [f \in IFields |->
                    CASE f = "header_version" -> d.ver
                      [] f = "page_size" -> d.page
                      [] f = "vendor_ramdisk_table_entry_num" -> d.entry_num
                      [] f = "vendor_ramdisk_table_entry_size" -> d.entry_size
                      [] f = "os_version" -> 66912276
                      [] f \in {size_field[b] : b \in Blocks} ->
                            d.sz[CHOOSE b \in Blocks : size_field[b] = f]
                      [] OTHER -> 0]
    IN PutAll(Put(Zeros(layout.total_size), 0,
                  FromSeq(IF d.fam = "Android" THEN BOOT_MAGIC ELSE VENDOR_BOOT_MAGIC)),
              [i \in 1..Len(U32Fields) |->
                  IF layout.offset[U32Fields[i]] # 0
                  THEN <<layout.offset[U32Fields[i]], to_le_bytes(vals[U32Fields[i]])>>
                  ELSE <<0, Empty>>])

BlockBytes(d, name) ==
    CASE name = "kernel" -> Content(Tag[name], d.sz[name], d.kfmt)
      [] name = "ramdisk" /\ d.entries = <<>> -> Content(Tag[name], d.sz[name], d.rfmt)
      [] name = "ramdisk" /\ d.entries # <<>> ->
            Slice(PutAll(Zeros(d.sz[name]),
                         [i \in 1..Len(d.entries) |->
                             <<d.entries[i][1],
                               Content(100 + i, d.entries[i][2],
                                       IF i = 1 THEN "GZIP" ELSE "UNKNOWN")>>]),
                  0, d.sz[name])
      [] name = "vendor_ramdisk_table" ->
            Slice(PutAll(Zeros(d.sz[name]),
                         [i \in 1..Len(d.entries) |->
                             <<(i - 1) * VendorRamdiskTableEntryV4_SIZE,
                               EntryRecord(i, d.entries[i][1], d.entries[i][2])>>]),
                  0, d.sz[name])
      [] OTHER -> Content(Tag[name], d.sz[name], "UNKNOWN")

VbmetaSize == 256
Room == 16384
TailLen == 100

FooterBytes(original_image_size, vbmeta_offset, vbmeta_size) ==
    PutAll(Zeros(AvbFooter_SIZE),
           << <<0, FromSeq(AVB_FOOTER_MAGIC)>>,
              <<AvbFooter_offset("version_major"), FromSeq(<<0, 0, 0, 1>>)>>,
              <<AvbFooter_offset("original_image_size"), to_be_bytes(original_image_size)>>,
              <<AvbFooter_offset("vbmeta_offset"), to_be_bytes(vbmeta_offset)>>,
              <<AvbFooter_offset("vbmeta_size"), to_be_bytes(vbmeta_size)>>,
              <<AvbFooter_SIZE - 1, FromSeq(<<70>>)>> >>)

VbmetaBytes == Put(Put(Zeros(VbmetaSize), 0, FromSeq(AVB_MAGIC)), VbmetaSize - 1, FromSeq(<<86>>))

\* the image of a description
Image(d) ==
    LET body == PutAll(Put(Zeros(BlocksEnd(d)), 0, HeaderBytes(d)),
                       [i \in 1..Len(BlockNames) |->
                           IF Present(d, BlockNames[i])
                           THEN <<StartOf(d, i), BlockBytes(d, BlockNames[i])>>
                           ELSE <<0, Empty>>])
        end == BlocksEnd(d)
    IN CASE d.avb = "none" -> Slice(body, 0, Max(body.len - d.cut, 0))
         [] d.avb = "roomy" ->
              LET v == RoundUp(end, 4096)
                  len == v + Room
              IN PutAll(body, << <<v, VbmetaBytes>>,
                                 <<len - AvbFooter_SIZE, FooterBytes(end, v, VbmetaSize)>> >>)
         [] d.avb = "tail" ->
              LET v == RoundUp(end + TailLen, 4096)
                  len == v + Room
              IN PutAll(body, << <<end, Content(65, TailLen, "UNKNOWN")>>,
                                 <<v, VbmetaBytes>>,
                                 <<len - AvbFooter_SIZE,
                                   FooterBytes(end + TailLen, v, VbmetaSize)>> >>)
         [] d.avb = "tight" ->
              PutAll(body, << <<end, VbmetaBytes>>,
                              <<end + VbmetaSize, FooterBytes(end, end, VbmetaSize)>> >>)

-----------------------------------------------------------------------------
(* The inputs *)

KSize == 5000
RSize == 300

\* n entries of EntryLen bytes, back to back
RECURSIVE EntriesBackToBack(_)
EntriesBackToBack(n) ==
    IF n = 0 THEN <<>>
    ELSE Append(EntriesBackToBack(n - 1), <<(n - 1) * EntryLen, EntryLen>>)

AndroidDescs ==
    {Desc("Android", ver, 2048, KSize, RSize, TRUE, avb, 0) :
        ver \in 0..4, avb \in {"none", "roomy", "tight"}}
    \cup {Desc("Android", 2, pg, KSize, RSize, TRUE, "none", 0) : pg \in {3, 16, 4096}}
    \cup {Desc("Android", 2, 2048, 0, RSize, FALSE, "none", 0),
          Desc("Android", 2, 2048, KSize, 0, FALSE, "tail", 0),
          Desc("Android", 3, 0, 0, 0, FALSE, "none", 0),
          Desc("Android", 3, 0, 0, 0, FALSE, "none", 2516),
          Desc("Android", 4, 0, KSize, RSize, FALSE, "tail", 0),
          Desc("Android", 1, 2048, KSize, RSize, TRUE, "none", 2028),
          Desc("Android", 1, 2048, KSize, RSize, TRUE, "none", 2029),
          Desc("Android", 0, 2048, KSize, RSize, TRUE, "none", 4000),
          [Desc("Android", 2, 2048, KSize, RSize, FALSE, "roomy", 0) EXCEPT !.kfmt = "UNKNOWN"],
          [Desc("Android", 2, 2048, KSize, RSize, FALSE, "none", 0) EXCEPT !.kfmt = "LZOP"]}

\* the v2 image of the specification's first scenario
ScenarioDesc == Desc("Android", 2, 2048, 4194304, 1048576, FALSE, "none", 0)

VendorDescs ==
    {Desc("Vendor", 3, pg, 0, RSize, TRUE, avb, 0) :
        pg \in {2048, 4096}, avb \in {"none", "roomy"}}
    \cup {VendorDesc(4096, EntriesBackToBack(n), n * EntryLen,
                     n * VendorRamdiskTableEntryV4_SIZE, extra, avb) :
            n \in 1..MaxEntries, extra \in BOOLEAN, avb \in {"none", "roomy"}}
    \cup {VendorDesc(2048, EntriesBackToBack(1), RSize,
                     2 * VendorRamdiskTableEntryV4_SIZE, TRUE, "none"),
          VendorDesc(2048, <<>>, RSize, 0, TRUE, "tight"),
          VendorDesc(4096, << <<0, EntryLen>>, <<EntryLen - 6, EntryLen>> >>, RSize,
                     2 * VendorRamdiskTableEntryV4_SIZE, FALSE, "none"),
          VendorDesc(4096, << <<RSize - 1, EntryLen>> >>, RSize,
                     VendorRamdiskTableEntryV4_SIZE, FALSE, "none"),
          VendorDesc(4096, EntriesBackToBack(1), 0,
                     VendorRamdiskTableEntryV4_SIZE, FALSE, "none"),
          [VendorDesc(4096, EntriesBackToBack(1), RSize,
                      VendorRamdiskTableEntryV4_SIZE, FALSE, "none")
              EXCEPT !.entry_size = 100],
          [VendorDesc(4096, EntriesBackToBack(1), RSize,
                      VendorRamdiskTableEntryV4_SIZE, FALSE, "none")
              EXCEPT !.entry_num = 2],
          VendorDesc(4096, << <<0, EntryLen>>, <<0, EntryLen>> >>, EntryLen,
                     2 * VendorRamdiskTableEntryV4_SIZE, FALSE, "none")}

Descs == AndroidDescs \cup VendorDescs \cup {ScenarioDesc}

\* inputs that are no image of a description: short, foreign or unsupported
\* <<description, keep, offset, bytes>>: the image of the description, cut to
\* its first keep bytes, with the bytes written at the offset
Mangled ==
    {<<Desc("Android", 0, 2048, KSize, RSize, FALSE, "none", 0), 0, 0, Empty>>,
     <<Desc("Android", 0, 2048, KSize, RSize, FALSE, "none", 0), 8, 0, Empty>>,
     <<Desc("Vendor", 3, 2048, 0, RSize, FALSE, "none", 0), 8, 0, Empty>>,
     <<Desc("Android", 0, 2048, KSize, RSize, FALSE, "none", 0), 43, 0, Empty>>,
     <<Desc("Android", 0, 2048, KSize, RSize, FALSE, "none", 0), 44, 0, Empty>>,
     <<Desc("Android", 2, 2048, KSize, RSize, FALSE, "none", 0), 1659, 0, Empty>>,
     <<Desc("Android", 3, 0, 3, RSize, FALSE, "none", 0), 1579, 0, Empty>>,
     <<Desc("Vendor", 3, 2048, 0, RSize, FALSE, "none", 0), 11, 0, Empty>>,
     <<Desc("Vendor", 3, 2048, 0, RSize, FALSE, "none", 0), 12, 0, Empty>>,
     <<Desc("Vendor", 4, 4096, 0, RSize, FALSE, "none", 0), 2127, 0, Empty>>,
     <<Desc("Android", 3, 0, 3, RSize, FALSE, "none", 0), Huge, 40, to_le_bytes(9)>>,
     <<Desc("Android", 0, 2048, 1, RSize, FALSE, "none", 0), Huge, 40, to_le_bytes(5)>>,
     <<Desc("Vendor", 3, 4, 0, RSize, FALSE, "none", 0), Huge, 8, to_le_bytes(2)>>,
     <<Desc("Vendor", 4, 4, 0, RSize, FALSE, "none", 0), Huge, 8, to_le_bytes(0)>>,
     <<Desc("Android", 2, 2048, KSize, RSize, FALSE, "none", 0), Huge, 0, FromSeq(<<97>>)>>}

\* the images of the descriptions: a set of <<description, image>>
ZeroPageDesc == Desc("Android", 2, 0, KSize, RSize, FALSE, "none", 0)
Images == {<<d, Image(d)>> : d \in Descs \cup {m[1] : m \in Mangled} \cup {ZeroPageDesc}}
ImageOf(d) == (CHOOSE i \in Images : i[1] = d)[2]

\* images with an AVB footer one field of which is overwritten:
\* <<description, field, value>>
AvbDesc == Desc("Android", 2, 2048, KSize, RSize, TRUE, "roomy", 0)
AvbMangled ==
    {<<AvbDesc, "original_image_size", 1>>,
     <<AvbDesc, "original_image_size", 1048576>>,
     <<AvbDesc, "vbmeta_offset", 1048576>>,
     <<AvbDesc, "vbmeta_offset", 0>>}

Malformed ==
    {Zeros(64)} \cup
    {Put(Slice(ImageOf(m[1]), 0, Min(m[2], ImageOf(m[1]).len)), m[3], m[4]) : m \in Mangled}
    \cup {Put(ImageOf(m[1]),
              ImageOf(m[1]).len - AvbFooter_SIZE + AvbFooter_offset(m[2]),
              to_be_bytes(m[3])) : m \in AvbMangled}

\* an image whose page_size field is 0, under both build profiles
ZeroPage == ImageOf(ZeroPageDesc)

Inputs ==
    {[image |-> ImageOf(d), checks |-> FALSE] : d \in Descs}
    \cup {[image |-> m, checks |-> FALSE] : m \in Malformed}
    \cup {[image |-> ZeroPage, checks |-> c] : c \in BOOLEAN}

\* replacement streams
StreamSmall == Content(120, 37, "UNKNOWN")
StreamBig == Content(121, 70000, "UNKNOWN")
Streams == {StreamSmall, StreamBig}
Cmdlines == {FromSeq(<<97, 61, 98>>)}
OsVersions == {<<12, 1, 32, 2001, 4>>}

-----------------------------------------------------------------------------
(* cpio.rs.  Paths and names are strings, modelled as sequences of bytes;  *)
(* an archive is a byte buffer.                                            *)

TYPE_CHAR == 8192
TYPE_DIR == 16384
TYPE_REGULAR == 32768

BitOr(a, b) == a + b - BitAnd(a, b)

\* "070701"
CPIO_MAGIC == <<48, 55, 48, 55, 48, 49>>
\* "TRAILER!!!"
TRAILER == <<84, 82, 65, 73, 76, 69, 82, 33, 33, 33>>
Dot == <<46>>
DotDot == <<46, 46>>

\* format!("{:08x}", v)
HexDigit(d) == IF d < 10 THEN 48 + d ELSE 87 + d
RECURSIVE HexDigits(_)
HexDigits(v) == IF v < 16 THEN <<HexDigit(v)>> ELSE Append(HexDigits(v \div 16), HexDigit(v % 16))
format_08x(v) ==
    LET digits == HexDigits(v) IN
    [i \in 1..(8 - Min(8, Len(digits))) |-> 48] \o digits

\* u32::from_str_radix(string, 16): hex digits of either case, after an
\* optional '+'
HexValue(c) ==
    CASE c \in 48..57 -> c - 48
      [] c \in 97..102 -> c - 87
      [] c \in 65..70 -> c - 55
      [] OTHER -> -1
RECURSIVE from_str_radix(_)
from_str_radix(digits) ==
    IF digits = <<>> THEN 0
    ELSE 16 * from_str_radix(SubSeq(digits, 1, Len(digits) - 1)) + HexValue(digits[Len(digits)])

\* read_hex_u32 at the cursor: the value, or an error
read_hex_u32(data, cursor) ==
    IF cursor + 8 > data.len THEN Err("failed to fill whole buffer")
    ELSE LET bytes == [i \in 1..8 |-> At(data, cursor + i - 1)]
             digits == IF bytes[1] = 43 THEN Tail(bytes) ELSE bytes
         IN IF \E i \in 1..Len(digits) : HexValue(digits[i]) < 0
            THEN Err("Invalid hex u32 header field")
            ELSE Ok(from_str_radix(digits))

\* str::split('/'): the components, the empty ones included
RECURSIVE split(_)
split(path) ==
    IF \A i \in 1..Len(path) : path[i] # 47 THEN <<path>>
    ELSE LET i == CHOOSE k \in 1..Len(path) :
                      path[k] = 47 /\ \A j \in 1..(k - 1) : path[j] # 47
         IN <<SubSeq(path, 1, i - 1)>> \o split(SubSeq(path, i + 1, Len(path)))

non_empty(x) == x # <<>>

\* Itertools::intersperse(components, "/").collect()
RECURSIVE intersperse(_)
intersperse(components) ==
    IF components = <<>> THEN <<>>
    ELSE IF Len(components) = 1 THEN components[1]
    ELSE components[1] \o <<47>> \o intersperse(Tail(components))

\* a normalization that keeps the empty components
norm_path_unfiltered(path) == intersperse(split(path))

\* norm_path
norm_path(path) == intersperse(SelectSeq(split(path), non_empty))

\* CpioEntry constructors
CpioEntry_regular(mode, data) ==
    [mode |-> BitOr(mode, TYPE_REGULAR), uid |-> 0, gid |-> 0,
     rdev_major |-> 0, rdev_minor |-> 0, data |-> Some(data)]
CpioEntry_dir(mode) ==
    [mode |-> BitOr(mode, TYPE_DIR), uid |-> 0, gid |-> 0,
     rdev_major |-> 0, rdev_minor |-> 0, data |-> None]
CpioEntry_char(mode, rdev_major, rdev_minor) ==
    [mode |-> BitOr(mode, TYPE_CHAR), uid |-> 0, gid |-> 0,
     rdev_major |-> rdev_major, rdev_minor |-> rdev_minor, data |-> None]
\* CpioEntry::len
CpioEntry_len(entry) == IF IsSome(entry.data) THEN Unwrap(entry.data).len ELSE 0

\* BTreeMap<String, _>: a function on its keys, iterated in the byte order
\* of the keys
StrLess(a, b) ==
    \E i \in 1..(Min(Len(a), Len(b)) + 1) :
        /\ \A j \in 1..(i - 1) : a[j] = b[j]
        /\ IF i > Len(a) THEN i <= Len(b)
           ELSE i <= Len(b) /\ a[i] < b[i]
RECURSIVE SortedKeys(_)
SortedKeys(keys) ==
    IF keys = {} THEN <<>>
    ELSE LET k == CHOOSE x \in keys : \A y \in keys \ {x} : StrLess(x, y)
         IN <<k>> \o SortedKeys(keys \ {k})
insert(entries, key, entry) ==
    [k \in DOMAIN entries \cup {key} |-> IF k = key THEN entry ELSE entries[k]]
remove(entries, key) == [k \in DOMAIN entries \ {key} |-> entries[k]]
StrStartsWith(a, prefix) ==
    Len(a) >= Len(prefix) /\ SubSeq(a, 1, Len(prefix)) = prefix

\* the 110-byte header of a record
cpio_header(inode, mode, uid, gid, file_size, rdev_major, rdev_minor, name_len) ==
    CPIO_MAGIC \o format_08x(inode) \o format_08x(mode) \o format_08x(uid)
        \o format_08x(gid) \o format_08x(1) \o format_08x(0) \o format_08x(file_size)
        \o format_08x(0) \o format_08x(0) \o format_08x(rdev_major)
        \o format_08x(rdev_minor) \o format_08x(name_len) \o format_08x(0)

\* Cpio::dump, record by record: w is [output, pos, inode]
dump_entry(w, name, entry) ==
    LET header == cpio_header(w.inode, entry.mode, entry.uid, entry.gid,
                              CpioEntry_len(entry), entry.rdev_major, entry.rdev_minor,
                              Len(name) + 1)
        o1 == Concat(w.output, FromSeq(header \o name \o <<0>>))
        pos1 == w.pos + Len(header) + Len(name) + 1
        o2 == Concat(o1, Zeros(align_to(pos1, 4) - pos1))
        pos2 == align_to(pos1, 4)
    IN IF IsSome(entry.data)
       THEN LET pos3 == pos2 + Unwrap(entry.data).len IN
            [output |-> Concat(Concat(o2, Unwrap(entry.data)), Zeros(align_to(pos3, 4))),
             pos |-> align_to(pos3, 4),
             inode |-> w.inode + 1]
       ELSE [output |-> o2, pos |-> pos2, inode |-> w.inode + 1]

RECURSIVE dump_entries(_, _, _)
dump_entries(w, entries, keys) ==
    IF keys = <<>> THEN w
    ELSE dump_entries(dump_entry(w, keys[1], entries[keys[1]]), entries, Tail(keys))

dump(entries) ==
    LET w == dump_entries([output |-> Empty, pos |-> 0, inode |-> 300000], entries,
                          SortedKeys(DOMAIN entries))
        trailer == cpio_header(w.inode, 493, 0, 0, 0, 0, 0, 11) \o TRAILER \o <<0>>
    IN Concat(Concat(w.output, FromSeq(trailer)),
              Zeros(align_to(w.pos + Len(trailer), 4)))

\* name_bytes.pop() while the last byte is NUL
RECURSIVE StripNuls(_)
StripNuls(name) ==
    IF name # <<>> /\ name[Len(name)] = 0 THEN StripNuls(SubSeq(name, 1, Len(name) - 1))
    ELSE name

\* the first "070701" at or after the offset from
FindMagic(data, from) ==
    LET hits == {i \in DOMAIN data.nz :
                    i >= from /\ StartsWith(Slice(data, i, Min(i + 6, data.len)), CPIO_MAGIC)}
    IN IF hits = {} THEN None
       ELSE Some(CHOOSE i \in hits : \A j \in hits : i <= j)

\* the 13 header fields after the magic, or the first error
RECURSIVE read_fields(_, _, _, _)
read_fields(data, cursor, n, acc) ==
    IF n = 0 THEN Ok(acc)
    ELSE LET r == read_hex_u32(data, cursor) IN
         IF r.kind # "Ok" THEN r
         ELSE read_fields(data, cursor + 8, n - 1, Append(acc, r.val))

\* Cpio::load_from_data: the loop, from the cursor
RECURSIVE load_loop(_, _, _)
load_loop(data, cursor, entries) ==
    IF cursor + 6 > data.len THEN Err("failed to fill whole buffer")
    ELSE IF ~StartsWith(Slice(data, cursor, cursor + 6), CPIO_MAGIC)
    THEN Err("unsupported cpio header")
    ELSE
    LET fields == read_fields(data, cursor + 6, 13, <<>>) IN
    IF fields.kind # "Ok" THEN fields
    ELSE
    LET mode == fields.val[2]
        uid == fields.val[3]
        gid == fields.val[4]
        file_size == fields.val[7]
        rdev_major == fields.val[10]
        rdev_minor == fields.val[11]
        name_len == fields.val[12]
        at == cursor + 110
    IN
    IF at + name_len > data.len THEN Err("failed to fill whole buffer")
    ELSE
    LET name_bytes == [i \in 1..name_len |-> At(data, at + i - 1)] IN
    IF name_len = 0 \/ name_bytes[name_len] # 0 THEN Err("Entry name was not NUL-terminated")
    ELSE
    LET name == StripNuls(name_bytes)
        after_name == align_to(at + name_len, 4)
    IN
    IF name = Dot \/ name = DotDot THEN load_loop(data, after_name, entries)
    ELSE IF name = TRAILER THEN
        IF after_name > data.len THEN Abort("range start index out of range")
        ELSE LET x == FindMagic(data, after_name) IN
             IF IsSome(x) THEN load_loop(data, Unwrap(x), entries) ELSE Ok(entries)
    ELSE IF after_name + file_size > data.len THEN Err("failed to fill whole buffer")
    ELSE load_loop(data, align_to(after_name + file_size, 4),
                   insert(entries, name,
                          [mode |-> mode, uid |-> uid, gid |-> gid,
                           rdev_major |-> rdev_major, rdev_minor |-> rdev_minor,
                           data |-> Some(Slice(data, after_name, after_name + file_size))]))

load_from_data(data) == load_loop(data, 0, <<>>)

\* Cpio::rm
rm(entries, path, recursive) ==
    LET key == norm_path(path)
        removed == remove(entries, key)
    IN IF recursive
       THEN [k \in {x \in DOMAIN removed : ~StrStartsWith(x, key \o <<47>>)} |-> removed[k]]
       ELSE removed

\* Cpio::add
add(entries, path, entry) ==
    IF path # <<>> /\ path[Len(path)] = 47 THEN Err("path cannot end with / for add")
    ELSE Ok(insert(entries, norm_path(path), entry))

\* Cpio::mv
mv(entries, from, to) ==
    IF norm_path(from) \notin DOMAIN entries THEN Err("No such entry")
    ELSE Ok(insert(remove(entries, norm_path(from)), norm_path(to), entries[norm_path(from)]))

\* no Cpio call made yet
CpioIdle == [op |-> "none", path |-> <<>>, key |-> <<>>, archive |-> Empty,
             dumped |-> <<>>, result |-> [kind |-> "None"], calls |-> 0,
             recursive |-> FALSE, before |-> <<>>]

\* no parse_compress_format call, no dump, no encoder yet
ProbeIdle == [data |-> Empty, format |-> "none"]
DumpIdle == [block |-> "none", index |-> 0, raw |-> FALSE, data |-> Empty,
             detected |-> "none", format |-> "none", decoder |-> "none",
             result |-> [kind |-> "None"]]
EncIdle == [op |-> "none", e |-> <<>>, write |-> <<>>, input |-> Empty, lens |-> <<>>]

\* no image is parsed or patched
NoImage ==
    /\ src = Empty /\ overflow_checks = FALSE
    /\ boot = [kind |-> "None"]
    /\ opt = NoOption
    /\ out = [data |-> Empty, cur |-> 0]
    /\ p = <<>>
    /\ ops = <<>>
    /\ pc = "idle"

-----------------------------------------------------------------------------
(* The program: parse an image, build a patch option, patch *)

\* no LZ4BlockDecoder has been made
DecIdle == [op |-> "none"]

\* no header accessor has been called
GotIdle == [op |-> "none"]

Init ==
    /\ \E i \in Inputs : src = i.image /\ overflow_checks = i.checks
    /\ boot = [kind |-> "None"]
    /\ opt = NoOption
    /\ out = [data |-> Empty, cur |-> 0]
    /\ p = [pos |-> 0, header_off |-> 0,
            off |-> [b \in Blocks |-> 0], size |-> [b \in Blocks |-> 0],
            table |-> <<>>, has_table |-> FALSE, err |-> "",
            total_size |-> 0, avb_header_off |-> 0]
    /\ ops = <<>>
    /\ pc = "start"
    /\ cpio = <<>>
    /\ cpio_io = CpioIdle
    /\ probe = ProbeIdle
    /\ dumped = DumpIdle
    /\ enc = EncIdle
    /\ dec = DecIdle /\ got = GotIdle

\* BootImage::parse
Parse ==
    /\ pc = "start"
    /\ boot' = BootImage_parse(src)
    /\ pc' = CASE boot'.kind = "Ok" -> "parsed"
               [] boot'.kind = "Err" -> "parse_failed"
               [] boot'.kind = "Panic" -> "parse_aborted"
    /\ UNCHANGED <<src, overflow_checks, opt, out, p, ops>>
    /\ UNCHANGED toolvars

Building == pc = "parsed" /\ opt.calls < MaxCalls
Built(o) ==
    /\ opt' = [o EXCEPT !.calls = opt.calls + 1]
    /\ UNCHANGED <<src, overflow_checks, boot, out, p, ops, pc>>
    /\ UNCHANGED toolvars

\* BootImagePatchOption::replace_kernel
ReplaceKernel ==
    /\ Building
    /\ \E data \in Streams, compressed \in BOOLEAN :
          Built([opt EXCEPT !.replace_kernel = Some(ReplacePayload(data, compressed))])

\* BootImagePatchOption::replace_ramdisk
ReplaceRamdisk ==
    /\ Building
    /\ \E compressed \in BOOLEAN :
          Built([opt EXCEPT !.replace_ramdisk = Some(ReplacePayload(StreamSmall, compressed))])

\* BootImagePatchOption::replace_vendor_ramdisk
ReplaceVendorRamdisk ==
    /\ Building
    /\ \E index \in 0..MaxEntries, compressed \in BOOLEAN :
          Built([opt EXCEPT !.replace_vendor_ramdisk =
                    (index :> ReplacePayload(StreamSmall, compressed)) @@ @])

\* BootImagePatchOption::override_cmdline
OverrideCmdline ==
    /\ Building
    /\ \E c \in Cmdlines : Built([opt EXCEPT !.override_cmdline = Some(c)])

\* BootImagePatchOption::override_os_version
OverrideOsVersion ==
    /\ Building
    /\ \E v \in OsVersions : Built([opt EXCEPT !.override_os_version = Some(v)])

\* BootImagePatchOption::patch
PatchTruncate == pc = "parsed" /\ Commit(truncate_step(St), "header")
PatchHeaderSpace == pc = "header" /\ Commit(header_step(St), "kernel")
PatchKernel == pc = "kernel" /\ Commit(kernel_step(St), "ramdisk")
PatchRamdisk == pc = "ramdisk" /\ Commit(ramdisk_step(St), "second")
PatchSecond == pc = "second" /\ Commit(copy_block(St, "second"), "recovery_dtbo")
PatchRecoveryDtbo == pc = "recovery_dtbo" /\ Commit(copy_block(St, "recovery_dtbo"), "dtb")
PatchDtb == pc = "dtb" /\ Commit(copy_block(St, "dtb"), "signature")
PatchSignature ==
    pc = "signature" /\ Commit(copy_block(St, "signature"), "vendor_ramdisk_table")
PatchVendorRamdiskTable ==
    pc = "vendor_ramdisk_table" /\ Commit(vendor_ramdisk_table_step(St), "bootconfig")
PatchBootconfig == pc = "bootconfig" /\ Commit(copy_block(St, "bootconfig"), "avb")
PatchAvb == pc = "avb" /\ Commit(avb_step(St), "patch_header")
PatchSizes == pc = "patch_header" /\ Commit(patch_header_step(St), "flush")
PatchFlush == pc = "flush" /\ Commit(flush_step(St), "done")

Next ==
    \/ Parse
    \/ ReplaceKernel
    \/ ReplaceRamdisk
    \/ ReplaceVendorRamdisk
    \/ OverrideCmdline
    \/ OverrideOsVersion
    \/ PatchTruncate
    \/ PatchHeaderSpace
    \/ PatchKernel
    \/ PatchRamdisk
    \/ PatchSecond
    \/ PatchRecoveryDtbo
    \/ PatchDtb
    \/ PatchSignature
    \/ PatchVendorRamdiskTable
    \/ PatchBootconfig
    \/ PatchAvb
    \/ PatchSizes
    \/ PatchFlush

Spec == Init /\ [][Next]_vars

-----------------------------------------------------------------------------
(* The Cpio program: an archive is loaded or built up call by call, dumped *)
(* and loaded back                                                         *)

MaxCpioCalls == 3
MaxPathLen == 5

\* "/init", "/dev", "/dev/console", "dev/", "/dev/init", "//init/", "missing"
PathInit == <<47, 105, 110, 105, 116>>
PathDev == <<47, 100, 101, 118>>
PathConsole == <<47, 100, 101, 118, 47, 99, 111, 110, 115, 111, 108, 101>>
PathDevSlash == <<100, 101, 118, 47>>
PathDevInit == <<47, 100, 101, 118, 47, 105, 110, 105, 116>>
PathInitSlashes == <<47, 47, 105, 110, 105, 116, 47>>
PathMissing == <<109, 105, 115, 115, 105, 110, 103>>
PathRoot == <<47>>
PathIn == <<47, 105, 110>>

\* payloads of 3 and of 8 bytes
PayloadOdd == FromSeq(<<104, 105, 33>>)
PayloadEven == FromSeq(<<35, 33, 47, 98, 105, 110, 47, 10>>)

\* the arguments of Cpio::add
AddCalls ==
    {<<PathInit, CpioEntry_regular(488, PayloadOdd)>>,
     <<PathInit, CpioEntry_regular(420, PayloadEven)>>,
     <<PathDev, CpioEntry_dir(493)>>,
     <<PathConsole, CpioEntry_char(384, 5, 1)>>,
     <<PathDevSlash, CpioEntry_dir(493)>>,
     <<Dot, CpioEntry_dir(493)>>}
\* the arguments of Cpio::mv
MvCalls ==
    {<<PathInit, PathDevInit>>, <<PathMissing, PathInit>>, <<PathInitSlashes, TRAILER>>,
     <<PathDev, DotDot>>}
\* the arguments of Cpio::rm
RmCalls ==
    {<<PathDev, TRUE>>, <<PathDev, FALSE>>, <<PathInitSlashes, FALSE>>,
     <<PathRoot, TRUE>>, <<PathIn, TRUE>>}

\* every string of '/' and 'a' of at most MaxPathLen bytes
RECURSIVE Strings(_)
Strings(n) ==
    IF n = 0 THEN {<<>>}
    ELSE Strings(n - 1) \cup {Append(x, c) : x \in Strings(n - 1), c \in {47, 97}}
ExistsCalls == Strings(MaxPathLen)

\* an archive as an archiver writes it: each record's name and payload
\* padded to the next 4-byte boundary, records as <<name, entry>>
RECURSIVE ArchiveOf(_, _)
ArchiveOf(records, inode) ==
    IF records = <<>> THEN Empty
    ELSE LET name == records[1][1]
             entry == records[1][2]
             head == FromSeq(cpio_header(inode, entry.mode, entry.uid, entry.gid,
                                         CpioEntry_len(entry), entry.rdev_major,
                                         entry.rdev_minor, Len(name) + 1)
                             \o name \o <<0>>)
             named == Concat(head, Zeros(RoundUp(head.len, 4) - head.len))
             body == IF IsSome(entry.data) THEN Concat(named, Unwrap(entry.data)) ELSE named
             padded == Concat(body, Zeros(RoundUp(body.len, 4) - body.len))
         IN Concat(padded, ArchiveOf(Tail(records), inode + 1))

TrailerRecord == <<TRAILER, [CpioEntry_dir(0) EXCEPT !.mode = 0]>>

\* archives handed to load_from_data: one with absolute and dotted names,
\* one with relative names, one without a trailer, one that is no archive,
\* one that ends with the trailer's name
Archives ==
    {Concat(ArchiveOf(<< <<Dot, CpioEntry_dir(493)>>,
                         <<PathInit, CpioEntry_regular(488, PayloadOdd)>>,
                         <<PathDevSlash, CpioEntry_dir(493)>>,
                         TrailerRecord >>, 1), Zeros(16)),
     Concat(ArchiveOf(<< <<Tail(PathInit), CpioEntry_regular(488, PayloadOdd)>>,
                         <<Tail(PathDev), CpioEntry_dir(493)>>,
                         <<Tail(PathConsole), CpioEntry_char(384, 5, 1)>>,
                         TrailerRecord >>, 1), Zeros(16)),
     ArchiveOf(<< <<Tail(PathInit), CpioEntry_regular(488, PayloadEven)>> >>, 1),
     Zeros(120),
     Slice(ArchiveOf(<<TrailerRecord>>, 1), 0, 121)}

CpioInit ==
    /\ cpio = <<>>
    /\ cpio_io = CpioIdle
    /\ NoImage
    /\ probe = ProbeIdle
    /\ dumped = DumpIdle
    /\ enc = EncIdle
    /\ dec = DecIdle /\ got = GotIdle

CpioCalling == cpio_io.calls < MaxCpioCalls
CpioCalled(op, path, result, entries) ==
    /\ cpio' = entries
    /\ cpio_io' = [cpio_io EXCEPT !.op = op, !.path = path, !.key = norm_path(path),
                                  !.result = result, !.calls = cpio_io.calls + 1,
                                  !.recursive = FALSE, !.before = <<>>]
    /\ UNCHANGED <<bootvars, probe, dumped, enc, dec, got>>

\* Cpio::load_from_data
CpioLoad ==
    /\ CpioCalling
    /\ \E archive \in Archives :
          LET r == load_from_data(archive) IN
          /\ cpio' = IF r.kind = "Ok" THEN r.val ELSE cpio
          /\ cpio_io' = [cpio_io EXCEPT !.op = "load", !.archive = archive,
                                        !.result = [kind |-> r.kind],
                                        !.calls = cpio_io.calls + 1]
          /\ UNCHANGED <<bootvars, probe, dumped, enc, dec, got>>

\* Cpio::add
CpioAdd ==
    /\ CpioCalling
    /\ \E c \in AddCalls :
          LET r == add(cpio, c[1], c[2]) IN
          CpioCalled("add", c[1], [kind |-> r.kind], IF r.kind = "Ok" THEN r.val ELSE cpio)

\* Cpio::mv
CpioMv ==
    /\ CpioCalling
    /\ \E c \in MvCalls :
          LET r == mv(cpio, c[1], c[2]) IN
          CpioCalled("mv", c[2], [kind |-> r.kind], IF r.kind = "Ok" THEN r.val ELSE cpio)

\* Cpio::rm
CpioRm ==
    /\ CpioCalling
    /\ \E c \in RmCalls :
          /\ cpio' = rm(cpio, c[1], c[2])
          /\ cpio_io' = [cpio_io EXCEPT !.op = "rm", !.path = c[1], !.key = norm_path(c[1]),
                                        !.result = [kind |-> "Ok"],
                                        !.calls = cpio_io.calls + 1,
                                        !.recursive = c[2], !.before = cpio]
    /\ UNCHANGED <<bootvars, probe, dumped, enc, dec, got>>

\* Cpio::exists
CpioExists ==
    /\ CpioCalling
    /\ \E path \in ExistsCalls :
          CpioCalled("exists", path,
                     [kind |-> "Ok", val |-> norm_path(path) \in DOMAIN cpio], cpio)

\* Cpio::dump
CpioDump ==
    /\ cpio_io.op \notin {"dump", "reload"}
    /\ cpio_io' = [cpio_io EXCEPT !.op = "dump", !.archive = dump(cpio), !.dumped = cpio,
                                  !.result = [kind |-> "Ok"]]
    /\ UNCHANGED <<cpio, bootvars, probe, dumped, enc, dec, got>>

\* Cpio::load_from_data on the archive dump wrote
CpioReload ==
    /\ cpio_io.op = "dump"
    /\ LET r == load_from_data(cpio_io.archive) IN
       /\ cpio' = IF r.kind = "Ok" THEN r.val ELSE cpio
       /\ cpio_io' = [cpio_io EXCEPT !.op = "reload", !.result = [kind |-> r.kind]]
    /\ UNCHANGED <<bootvars, probe, dumped, enc, dec, got>>

CpioNext ==
    \/ CpioLoad
    \/ CpioAdd
    \/ CpioMv
    \/ CpioRm
    \/ CpioDump
    \/ CpioReload

CpioSpec == CpioInit /\ [][CpioNext]_vars

\* the calls that take a path: each normalizes it with norm_path
PathNext ==
    \/ CpioAdd
    \/ CpioMv
    \/ CpioRm
    \/ CpioExists

PathSpec == CpioInit /\ [][PathNext]_vars

-----------------------------------------------------------------------------
(* Format detection: parse_compress_format on the leading bytes of a block *)

MaxProbeTail == 7

\* the magics, each whole, cut short by a byte, with its last byte off by
\* one, and behind a leading zero byte
MagicHeads ==
    LET magics == {GZIP1_MAGIC, GZIP2_MAGIC, LZOP_MAGIC, XZ_MAGIC, BZIP_MAGIC,
                   LZ4_LEG_MAGIC, LZ41_MAGIC, LZ42_MAGIC}
    IN magics
       \cup {SubSeq(m, 1, Len(m) - 1) : m \in magics}
       \cup {[m EXCEPT ![Len(m)] = m[Len(m)] + 1] : m \in magics}
       \cup {<<0>> \o m : m \in magics}

\* LZMA headers: the first byte, the little-endian dictionary size, and the
\* eight bytes of the unknown uncompressed size, one of which may be off
LzmaHeads ==
    {<<b0>> \o dict \o [i \in 1..8 |-> IF i = off THEN 254 ELSE 255] :
        b0 \in {93, 94},
        dict \in {<<0, 0, 0, 0>>, <<1, 0, 0, 0>>, <<0, 0, 128, 0>>, <<0, 0, 0, 64>>,
                  <<3, 0, 0, 0>>, <<0, 16, 16, 0>>, <<0, 0, 129, 0>>},
        off \in {0, 1, 8}}

Probes ==
    {FromSeq(h \o [i \in 1..n |-> 65]) :
        h \in MagicHeads \cup LzmaHeads \cup {<<>>}, n \in {0, 1, MaxProbeTail}}

ProbeInit ==
    /\ probe = ProbeIdle
    /\ NoImage
    /\ cpio = <<>> /\ cpio_io = CpioIdle
    /\ dumped = DumpIdle
    /\ enc = EncIdle
    /\ dec = DecIdle /\ got = GotIdle

\* parse_compress_format
Detect ==
    /\ \E data \in Probes : probe' = [data |-> data, format |-> parse_compress_format(data)]
    /\ UNCHANGED <<bootvars, cpiovars, dumped, enc, dec, got>>

ProbeNext == Detect

ProbeSpec == ProbeInit /\ [][ProbeNext]_vars

-----------------------------------------------------------------------------
(* Dumping the blocks of a parsed image                                    *)

Dumped(block, index, b, raw, r) ==
    /\ dumped' = [block |-> block, index |-> index, raw |-> raw,
                  data |-> DataOf(src, b.data), detected |-> b.compress_format,
                  format |-> r.format, decoder |-> r.decoder, result |-> r.result]
    /\ UNCHANGED <<bootvars, cpiovars, probe, enc, dec, got>>

\* blocks.get_kernel().dump(out, raw)
DumpKernel ==
    /\ pc = "parsed" /\ IsSome(source.blocks.kernel)
    /\ \E raw \in BOOLEAN, decodes \in BOOLEAN :
          LET kernel == Unwrap(source.blocks.kernel) IN
          Dumped("kernel", 0, kernel, raw, KernelImage_dump(src, kernel, raw, decodes))

\* blocks.get_ramdisk().dump(out, raw)
DumpRamdisk ==
    /\ pc = "parsed" /\ IsSome(source.blocks.ramdisk)
    /\ \E raw \in BOOLEAN, decodes \in BOOLEAN :
          LET ramdisk == Unwrap(source.blocks.ramdisk) IN
          Dumped("ramdisk", 0, ramdisk, raw, RamdiskImage_dump(src, ramdisk, raw, decodes))

\* ramdisk.get_vendor_ramdisk(i).dump(out, raw)
DumpVendorRamdiskEntry ==
    /\ pc = "parsed" /\ IsSome(source.blocks.ramdisk)
    /\ IsSome(Unwrap(source.blocks.ramdisk).vendor_ramdisk_table)
    /\ \E raw \in BOOLEAN, decodes \in BOOLEAN :
       \E i \in 1..Len(Unwrap(Unwrap(source.blocks.ramdisk).vendor_ramdisk_table)) :
          LET entry == Unwrap(Unwrap(source.blocks.ramdisk).vendor_ramdisk_table)[i] IN
          Dumped("vendor_ramdisk", i, entry, raw,
                 VendorRamdiskEntry_dump(src, entry, raw, decodes))

DumpNext ==
    \/ Parse
    \/ DumpKernel
    \/ DumpRamdisk
    \/ DumpVendorRamdiskEntry

DumpSpec == Init /\ [][DumpNext]_vars

-----------------------------------------------------------------------------
(* The LZ4 legacy encoder: created by get_encoder, written to, finished    *)

MaxWrites == 3

\* the k-th buffer written, of n bytes, marked at both ends
WriteBuf(k, n) ==
    IF n = 0 THEN Empty
    ELSE Put(Put(Zeros(n), n - 1, FromSeq(<<16 + k>>)), 0, FromSeq(<<k>>))
WriteSizes == {0, 3, LZ4_BLOCK_SIZE - 3, LZ4_BLOCK_SIZE, LZ4_BLOCK_SIZE + 5}

EncInit ==
    /\ enc = EncIdle
    /\ NoImage
    /\ cpio = <<>> /\ cpio_io = CpioIdle
    /\ probe = ProbeIdle
    /\ dumped = DumpIdle
    /\ dec = DecIdle /\ got = GotIdle

EncOpen == enc.op \in {"new", "write"}

\* get_encoder(CompressFormat::LZ4_LEGACY, w)
EncNew ==
    /\ enc.op = "none"
    /\ enc' = [op |-> "new", e |-> LZ4BlockEncoder_new(FALSE), write |-> <<>>,
               input |-> Empty, lens |-> <<>>]
    /\ UNCHANGED <<bootvars, cpiovars, probe, dumped, dec, got>>

\* encoder.write_all(buf)
EncWrite ==
    /\ EncOpen /\ Len(enc.lens) < MaxWrites
    /\ \E n \in WriteSizes :
          LET buf == WriteBuf(Len(enc.lens) + 1, n)
              e == LZ4BlockEncoder_write_all(enc.e, buf)
          IN enc' = [enc EXCEPT !.op = "write", !.e = e, !.write = e.write,
                                !.input = Concat(enc.input, buf),
                                !.lens = Append(enc.lens, n)]
    /\ UNCHANGED <<bootvars, cpiovars, probe, dumped, dec, got>>

\* encoder.finish()
EncFinish ==
    /\ EncOpen
    /\ enc' = [enc EXCEPT !.op = "finished", !.write = LZ4BlockEncoder_finish(enc.e)]
    /\ UNCHANGED <<bootvars, cpiovars, probe, dumped, dec, got>>

EncNext ==
    \/ EncNew
    \/ EncWrite
    \/ EncFinish

EncSpec == EncInit /\ [][EncNext]_vars


-----------------------------------------------------------------------------
(* compress.rs: LZ4BlockDecoder over a reader that can fail.  The reader    *)
(* holds the bytes of the stream, delivers at most `chunk` bytes per read   *)
(* call, and raises an I/O error once its position reaches `err_at`.        *)

MaxReads == 3       \* read calls on one decoder
NoError == Huge     \* err_at of a reader that never fails

\* bytemuck::bytes_of(&u32) and its inverse, on little-endian targets
bytes_of(v) == <<v % 256, (v \div 256) % 256, (v \div 65536) % 256, (v \div 16777216) % 256>>
pod_of(b) == b[1] + 256 * b[2] + 65536 * b[3] + 16777216 * b[4]

\* lz4::block::compress_bound
compress_bound(n) == n + n \div 255 + 16

Reader(data, err_at, chunk) == [data |-> data, pos |-> 0, err_at |-> err_at, chunk |-> chunk]

\* Read::read into a buffer of n bytes
Read_read(r, n) ==
    IF n = 0 THEN [r |-> r, res |-> Ok(0), bytes |-> <<>>]
    ELSE IF r.pos >= r.err_at THEN [r |-> r, res |-> Err("Other"), bytes |-> <<>>]
    ELSE LET len == Min(Min(n, r.chunk), Min(Len(r.data), r.err_at) - r.pos)
         IN [r |-> [r EXCEPT !.pos = @ + len], res |-> Ok(len),
             bytes |-> SubSeq(r.data, r.pos + 1, r.pos + len)]

\* Read::read_exact: read until the buffer is full; the end of the input
\* before that is ErrorKind::UnexpectedEof
RECURSIVE Read_read_exact(_, _)
Read_read_exact(r, n) ==
    IF n = 0 THEN [r |-> r, res |-> Ok(0), bytes |-> <<>>]
    ELSE LET one == Read_read(r, n)
         IN IF one.res.kind = "Err" THEN one
            ELSE IF one.res.val = 0 THEN [r |-> one.r, res |-> Err("UnexpectedEof"), bytes |-> <<>>]
            ELSE LET more == Read_read_exact(one.r, n - one.res.val)
                 IN [more EXCEPT !.bytes = one.bytes \o @]

\* ReadExt::read_pod for a u32
read_pod(r) ==
    LET four == Read_read_exact(r, 4)
    IN [r |-> four.r, res |-> four.res,
        val |-> IF four.res.kind = "Ok" THEN pod_of(four.bytes) ELSE 0]

\* LZ4BlockDecoder::new
LZ4BlockDecoder_new(read) ==
    [read |-> read, in_buf_len |-> compress_bound(LZ4_BLOCK_SIZE), out_len |-> 0, out_pos |-> 0]

\* what one read call met in the underlying reader: the error it raised,
\* where, and whether the input ended where a block's bytes were due
Met(io, at, ended) == [io |-> io, at |-> at, ended |-> ended]

\* the tail of LZ4BlockDecoder::read: hand out decompressed bytes
copy_out(d, n, met) ==
    LET copy_len == Min(n, d.out_len - d.out_pos)
    IN [d |-> [d EXCEPT !.out_pos = @ + copy_len], res |-> Ok(copy_len), met |-> met]

\* LZ4BlockDecoder::read, from the decompression on: rest is the outcome of
\* the reads of the compressed block, dropped the error of the first read,
\* and lz4 the outcome of lz4::block::decompress_to_buffer on in_buf
decompress_block(d, n, lz4, rest, dropped) ==
    LET met == Met(IF dropped # "none" THEN dropped
                   ELSE IF rest.res.kind = "Err" THEN rest.res.err ELSE "none",
                   "block", rest.res.kind = "Err" /\ rest.res.err = "UnexpectedEof")
    IN IF rest.res.kind = "Err"
       THEN [d |-> [d EXCEPT !.read = rest.r], res |-> rest.res, met |-> met]
       ELSE IF lz4.kind = "Err"
       THEN [d |-> [d EXCEPT !.read = rest.r], res |-> lz4, met |-> met]
       ELSE copy_out([d EXCEPT !.read = rest.r, !.out_len = lz4.val, !.out_pos = 0], n, met)

\* LZ4BlockDecoder::read, after `self.read.read(compressed_block)` returned
\* head: only an Ok is looked at
block_read(d, n, lz4, block_size, head) ==
    IF head.res.kind = "Err"
    THEN decompress_block(d, n, lz4, [r |-> head.r, res |-> Ok(0)], head.res.err)
    ELSE IF head.res.val = 0
    THEN [d |-> [d EXCEPT !.read = head.r], res |-> Ok(0),
          met |-> Met("none", "block", block_size > 0)]
    ELSE IF head.res.val # block_size
    THEN decompress_block(d, n, lz4,
                          Read_read_exact(head.r, block_size - head.res.val), "none")
    ELSE decompress_block(d, n, lz4, [r |-> head.r, res |-> Ok(0)], "none")

\* LZ4BlockDecoder::read, once the block size is known
read_block(d, n, lz4, r, block_size) ==
    IF block_size > d.in_buf_len
    THEN [d |-> [d EXCEPT !.read = r], res |-> Ok(0), met |-> Met("none", "trailer", FALSE)]
    ELSE block_read(d, n, lz4, block_size, Read_read(r, block_size))

\* LZ4BlockDecoder::read, after the magic: self.read.read_pod(&mut block_size)?
after_magic(d, n, lz4, size2) ==
    IF size2.res.kind = "Err"
    THEN [d |-> [d EXCEPT !.read = size2.r], res |-> size2.res,
          met |-> Met(size2.res.err, "after_magic", FALSE)]
    ELSE read_block(d, n, lz4, size2.r, size2.val)

\* LZ4BlockDecoder::read, after the first read_pod(&mut block_size)
block_size_read(d, n, lz4, size1) ==
    IF size1.res.kind = "Err"
    THEN [d |-> [d EXCEPT !.read = size1.r],
          res |-> IF size1.res.err = "UnexpectedEof" THEN Ok(0) ELSE size1.res,
          met |-> Met(size1.res.err, "block_size", FALSE)]
    ELSE IF size1.val = LZ4_MAGIC THEN after_magic(d, n, lz4, read_pod(size1.r))
    ELSE read_block(d, n, lz4, size1.r, size1.val)

\* LZ4BlockDecoder::read into a buffer of n bytes
LZ4BlockDecoder_read(d, n, lz4) ==
    IF d.out_pos # d.out_len THEN copy_out(d, n, Met("none", "none", FALSE))
    ELSE block_size_read(d, n, lz4, read_pod(d.read))

-----------------------------------------------------------------------------
(* The decoder's callers: get_decoder(LZ4_LEGACY, r), then read calls.      *)

Magic == bytes_of(LZ4_MAGIC)
DecStreams ==
    { <<>>,
      <<2, 0>>,
      Magic,
      Magic \o bytes_of(2),
      Magic \o bytes_of(2) \o <<7>>,
      Magic \o bytes_of(2) \o <<7, 9>>,
      bytes_of(2) \o <<7, 9>> \o bytes_of(1) \o <<5>>,
      Magic \o bytes_of(1) \o <<5>> \o bytes_of(16777216) }

\* outcomes of lz4::block::decompress_to_buffer
Lz4Outcomes == {Ok(1), Ok(2), Err("InvalidData")}

DecInit ==
    /\ dec = DecIdle
    /\ NoImage
    /\ cpio = <<>> /\ cpio_io = CpioIdle
    /\ probe = ProbeIdle
    /\ dumped = DumpIdle
    /\ enc = EncIdle
    /\ got = GotIdle

\* get_decoder(CompressFormat::LZ4_LEGACY, r)
DecNew ==
    /\ dec.op = "none"
    /\ \E data \in DecStreams, chunk \in {1, Huge} :
       \E err_at \in (0..Len(data)) \cup {NoError} :
          dec' = [op |-> "new", d |-> LZ4BlockDecoder_new(Reader(data, err_at, chunk)),
                  reads |-> 0, res |-> Ok(0), met |-> Met("none", "none", FALSE)]
    /\ UNCHANGED <<bootvars, cpiovars, probe, dumped, enc, got>>

\* decoder.read(buf)
DecRead ==
    /\ dec.op \in {"new", "read"} /\ dec.reads < MaxReads
    /\ \E n \in 1..2, lz4 \in Lz4Outcomes :
          LET r == LZ4BlockDecoder_read(dec.d, n, lz4)
          IN dec' = [op |-> "read", d |-> r.d, reads |-> dec.reads + 1,
                     res |-> r.res, met |-> r.met]
    /\ UNCHANGED <<bootvars, cpiovars, probe, dumped, enc, got>>

DecNext ==
    \/ DecNew
    \/ DecRead

DecSpec == DecInit /\ [][DecNext]_vars


-----------------------------------------------------------------------------
(* parser.rs: the accessors of a parsed BootHeader.  An OsVersion with a    *)
(* PatchLevel is the tuple <<a, b, c, year, month>>.                        *)

\* the variant of get_os_version that splits the raw value one bit higher
get_os_version_split12(h) ==
    LET version == get(h, "os_version") IN
    IF version = 0 THEN None
    ELSE LET os_ver == version \div 4096
             patch_level == version % 4096
         IN Some(<<(os_ver \div 16384) % 128, (os_ver \div 128) % 128, os_ver % 128,
                   (patch_level \div 16) + 2000, patch_level % 16>>)

\* BootHeader::get_os_version: >> k is \div 2^k, & (2^k - 1) is % 2^k
get_os_version(h) ==
    LET version == get(h, "os_version") IN
    IF version = 0 THEN None
    ELSE LET os_ver == version \div 2048
             patch_level == version % 2048
             a == (os_ver \div 16384) % 128
             b == (os_ver \div 128) % 128
             c == os_ver % 128
             y == (patch_level \div 16) + 2000
             m == patch_level % 16
         IN Some(<<a, b, c, y, m>>)

\* impl_ifield_accessor get_F for a u32 field: the slice
\* data[offset..offset + 4] panics only beyond the header's bytes
get_F(h, f) ==
    LET offset == h.layout.offset[f] IN
    IF offset + u32 > h.data.len THEN Abort("range end index out of range")
    ELSE Ok(from_le_bytes(h.data, offset))

\* the u32 fields of the accessors
GetFields == IFields \ {"recovery_dtbo_offset"}

\* raw os_version values: none, the one of the generated headers
\* (0x03FD0014), and 12.1.32 with patch level 2021-04
RawOsVersions == {0, 66912276, 402981204}

HeaderDescs ==
    {Desc("Android", ver, 2048, KSize, RSize, TRUE, "none", 0) : ver \in 0..4}
VendorHeaderDescs ==
    {Desc("Vendor", 3, pg, 0, RSize, TRUE, "none", 0) : pg \in {2048, 4096}}
HeaderInputs ==
    {Put(ImageOf(d), LayoutOf(d.fam, d.ver).offset["os_version"], to_le_bytes(raw)) :
        d \in HeaderDescs, raw \in RawOsVersions}
    \cup {ImageOf(d) : d \in VendorHeaderDescs}

HeaderInit ==
    /\ src \in HeaderInputs /\ overflow_checks = FALSE
    /\ boot = [kind |-> "None"]
    /\ opt = NoOption
    /\ out = [data |-> Empty, cur |-> 0]
    /\ p = [pos |-> 0, header_off |-> 0,
            off |-> [b \in Blocks |-> 0], size |-> [b \in Blocks |-> 0],
            table |-> <<>>, has_table |-> FALSE, err |-> "",
            total_size |-> 0, avb_header_off |-> 0]
    /\ ops = <<>>
    /\ pc = "start"
    /\ cpio = <<>> /\ cpio_io = CpioIdle
    /\ probe = ProbeIdle
    /\ dumped = DumpIdle
    /\ enc = EncIdle
    /\ dec = DecIdle
    /\ got = GotIdle

\* header.has_F() and header.get_F()
GetField ==
    /\ pc = "parsed"
    /\ \E f \in GetFields :
          got' = [op |-> "get", field |-> f, has |-> has(source.header, f),
                  raw |-> 0, res |-> get_F(source.header, f)]
    /\ UNCHANGED <<bootvars, cpiovars, probe, dumped, enc, dec>>

\* header.get_os_version()
GetOsVersion ==
    /\ pc = "parsed"
    /\ got' = [op |-> "get_os_version", field |-> "os_version",
               has |-> has(source.header, "os_version"),
               raw |-> get(source.header, "os_version"),
               res |-> Ok(get_os_version(source.header))]
    /\ UNCHANGED <<bootvars, cpiovars, probe, dumped, enc, dec>>

HeaderNext ==
    \/ Parse
    \/ GetField
    \/ GetOsVersion

HeaderSpec == HeaderInit /\ [][HeaderNext]_vars

-----------------------------------------------------------------------------
(* What the claims are stated over *)

Accepted == boot.kind = "Ok"
Done == pc = "done"
NoReplacements ==
    opt.replace_kernel = None /\ opt.replace_ramdisk = None /\ opt.replace_vendor_ramdisk = <<>>

\* n is a multiple of a
Multiple(n, a) == IF a = 0 THEN n = 0 ELSE n % a = 0
PowerOfTwo(n) == n \in {2^k : k \in 0..30}

\* the vendor ramdisk table entries of a parsed image
EntriesOf(image) ==
    IF IsSome(image.blocks.ramdisk) /\ IsSome(Unwrap(image.blocks.ramdisk).vendor_ramdisk_table)
    THEN Unwrap(Unwrap(image.blocks.ramdisk).vendor_ramdisk_table)
    ELSE <<>>

\* the blocks whose payload a patch without replacements copies
PayloadBlocks == Blocks \ {"vendor_ramdisk_table"}

\* the parsed image t of the bytes td has the blocks of the parsed image s of
\* the bytes sd, with the same payload bytes: block by block, the ramdisk of
\* an image with a vendor ramdisk table entry by entry
SameBlocks(s, sd, t, td) ==
    /\ \A name \in PayloadBlocks :
          /\ IsSome(t.raw[name]) <=> IsSome(s.raw[name])
          /\ (IsSome(t.raw[name]) /\ IsSome(s.raw[name])
                /\ ~(name = "ramdisk" /\ IsSome(s.raw["vendor_ramdisk_table"]))) =>
                DataOf(td, Unwrap(t.raw[name])) = DataOf(sd, Unwrap(s.raw[name]))
    /\ Len(EntriesOf(t)) = Len(EntriesOf(s))
    /\ \A i \in 1..Min(Len(EntriesOf(t)), Len(EntriesOf(s))) :
          DataOf(td, EntriesOf(t)[i].data) = DataOf(sd, EntriesOf(s)[i].data)

\* the bytes the log says were written for a block
RECURSIVE WrittenLen(_, _)
WrittenLen(log, whats) ==
    IF log = <<>> THEN 0
    ELSE (IF log[1].op = "write" /\ log[1].what \in whats THEN log[1].len ELSE 0)
         + WrittenLen(Tail(log), whats)

WhatOf(name) == IF name = "ramdisk" THEN {"ramdisk", "vendor_ramdisk"} ELSE {name}

\* the size fields the layout of the source header defines
DefinedSizes == {name \in Blocks : source.header.layout.offset[size_field[name]] # 0}
SizeFieldAt(name) == p.header_off + source.header.layout.offset[size_field[name]]

\* the present blocks of a parsed image, in the order of the block list
RECURSIVE PresentFrom(_, _)
PresentFrom(raw, i) ==
    IF i > Len(BlockNames) THEN <<>>
    ELSE (IF IsSome(raw[BlockNames[i]]) THEN <<Unwrap(raw[BlockNames[i]])>> ELSE <<>>)
         \o PresentFrom(raw, i + 1)

RECURSIVE SumAligned(_, _)
SumAligned(sls, a) ==
    IF sls = <<>> THEN 0 ELSE RoundUp(sls[1].size, a) + SumAligned(Tail(sls), a)

\* the header of the source, when BootHeader::parse returned one
Header == BootHeader_parse(src)
IsAndroid == StartsWith(src, BOOT_MAGIC)
IsVendor == StartsWith(src, VENDOR_BOOT_MAGIC)

-----------------------------------------------------------------------------
(* The claims *)

\* C1: a patch without replacements of an accepted image yields an image that
\* BootImage::parse accepts, with every block present iff it is present in the
\* source and with the payload bytes of the source.
C1_PatchWithoutReplacementsKeepsBlocks ==
    (Done /\ NoReplacements) =>
        LET r == BootImage_parse(out.data) IN
        r.kind = "Ok" /\ SameBlocks(source, src, r.val, out.data)

\* C1, the input that fails: a vendor v4 image with a table and a bootconfig
\* has been patched without replacements and the bootconfig read back from the
\* output is not the source's.
C1_BootconfigLost ==
    /\ Done /\ NoReplacements
    /\ IsSome(source.raw["vendor_ramdisk_table"]) /\ IsSome(source.raw["bootconfig"])
    /\ LET r == BootImage_parse(out.data) IN
       r.kind = "Ok" => ~SameBlocks(source, src, r.val, out.data)

\* C2: every block patch writes starts at a multiple of the source's page
\* size, the bootconfig after a vendor ramdisk table included.
C2_WrittenBlocksStartAligned ==
    Done => \A name \in Blocks : p.size[name] > 0 => Multiple(p.off[name], page)

\* C2, the input that fails: the bootconfig written right after a vendor
\* ramdisk table whose length is no multiple of the page size.
C2_BootconfigUnaligned ==
    /\ Done
    /\ p.size["vendor_ramdisk_table"] > 0 /\ p.size["bootconfig"] > 0
    /\ ~Multiple(p.size["vendor_ramdisk_table"], page)
    /\ p.off["bootconfig"] = p.off["vendor_ramdisk_table"] + p.size["vendor_ramdisk_table"]
    /\ ~Multiple(p.off["bootconfig"], page)

\* C3: the fix-up step leaves in every size field the source layout defines
\* the little-endian u32 of the bytes written for the block (0 for a block
\* that was not written), and changes no other byte of the output.
C3_FixupWritesExactlyTheSizeFields ==
    [][(pc = "patch_header" /\ pc' = "flush") =>
          /\ \A name \in DefinedSizes :
                from_le_bytes(out'.data, SizeFieldAt(name)) = WrittenLen(ops, WhatOf(name))
          /\ \A i \in DOMAIN out.data.nz \cup DOMAIN out'.data.nz :
                At(out'.data, i) # At(out.data, i) =>
                    \E name \in DefinedSizes : i - SizeFieldAt(name) \in 0..3
          /\ out'.data.len = out.data.len]_vars

\* C3, reached: a patch with a replaced kernel has finished and the kernel
\* size field of the output differs from the source's.
C3_KernelSizeRewritten ==
    /\ Done /\ IsSome(opt.replace_kernel)
    /\ "kernel" \in DefinedSizes
    /\ from_le_bytes(out.data, SizeFieldAt("kernel")) = WrittenLen(ops, {"kernel"})
    /\ from_le_bytes(out.data, SizeFieldAt("kernel")) # get(source.header, "kernel_size")

\* C4: after a patch of an image with an AVB footer, the last 64 bytes of the
\* output are a footer with the magic and the new original_image_size and
\* vbmeta_offset, and the bytes the footer names are the source's vbmeta header.
C4_FooterAndVbmetaIntact ==
    (Done /\ IsSome(source.avb_info)) =>
        LET footer == Slice(out.data, out.data.len - AvbFooter_SIZE, out.data.len)
            off == AvbFooter_get(footer, "vbmeta_offset")
            size == AvbFooter_get(footer, "vbmeta_size")
        IN /\ StartsWith(footer, AVB_FOOTER_MAGIC)
           /\ AvbFooter_get(footer, "original_image_size") = p.total_size
           /\ off = p.avb_header_off
           /\ IsSome(Get(out.data, off, off + size))
           /\ Slice(out.data, off, off + size) =
                 DataOf(src, Unwrap(source.avb_info).avb_header)
           /\ off + size <= out.data.len - AvbFooter_SIZE

\* C4, the input that fails: a longer kernel has moved the vbmeta header to
\* the end of the output, and the footer is written over its last bytes.
C4_FooterOverVbmeta ==
    /\ Done /\ IsSome(source.avb_info) /\ IsSome(opt.replace_kernel)
    /\ out.data.len > src.len
    /\ p.avb_header_off + Unwrap(source.avb_info).avb_header.size > out.data.len - AvbFooter_SIZE
    /\ Slice(out.data, p.avb_header_off,
             p.avb_header_off + Unwrap(source.avb_info).avb_header.size)
          # DataOf(src, Unwrap(source.avb_info).avb_header)

\* C5: BootHeader::parse returns a header exactly for a known magic with a
\* supported version, the header's data being the first total_size bytes of
\* the input, and returns an error for every other input; it never aborts.
C5_HeaderParseReturns ==
    pc # "start" =>
        /\ Header.kind \in {"Ok", "Err"}
        /\ Header.kind = "Ok" <=>
              \/ IsAndroid /\ IsSome(u32_at(src, android_version_offset))
                           /\ Unwrap(u32_at(src, android_version_offset)) \in 0..4
              \/ IsVendor /\ IsSome(u32_at(src, vendor_version_offset))
                          /\ Unwrap(u32_at(src, vendor_version_offset)) \in 3..4
        /\ Header.kind = "Ok" =>
              /\ Header.val.data.len = Header.val.layout.total_size
              /\ Header.val.data = Slice(src, 0, Header.val.layout.total_size)

\* C5, the input that fails: a known magic and a supported version in an input
\* shorter than the layout, on which the parse has aborted.
C5_ShortHeaderAborts ==
    /\ pc = "parse_aborted"
    /\ IsAndroid /\ u32_at(src, android_version_offset) = Some(0)
    /\ src.len < BOOT_HEADER_V0.total_size
    /\ Header.kind = "Panic"

\* C6 as the code has it: the version of an accepted header is the
\* little-endian u32 at byte offset 40 of an "ANDROID!" image and at byte
\* offset 8 of a "VNDRBOOT" image, and an unsupported version is that u32.
C6_VersionOffsets ==
    pc # "start" =>
        /\ (Header.kind = "Ok" /\ IsAndroid) =>
              Header.val.version = <<"Android", from_le_bytes(src, 40)>>
        /\ (Header.kind = "Ok" /\ IsVendor) =>
              Header.val.version = <<"Vendor", from_le_bytes(src, 8)>>
        /\ (IsAndroid /\ src.len >= 44) =>
              (Header = Err("unsupported boot version") <=> from_le_bytes(src, 40) \notin 0..4)
        /\ (IsVendor /\ src.len >= 12) =>
              (Header = Err("unsupported vendor boot version")
                  <=> from_le_bytes(src, 8) \notin 3..4)

\* C6, reached: an Android header has been accepted as version 2 although the
\* u32 at byte offset 8 (the kernel size) is not 2.
C6_AndroidVersionRead ==
    /\ pc = "parsed" /\ IsAndroid
    /\ source.header.version[2] = 2
    /\ from_le_bytes(src, 8) # 2

\* C6 as the specification has it: the version is the u32 at byte offset 8 of
\* an "ANDROID!" image and at byte offset 12 of a "VNDRBOOT" image.
C6_VersionOffsetsAsSpecified ==
    pc # "start" =>
        /\ (Header.kind = "Ok" /\ IsAndroid) =>
              Header.val.version = <<"Android", from_le_bytes(src, 8)>>
        /\ (Header.kind = "Ok" /\ IsVendor) =>
              Header.val.version = <<"Vendor", from_le_bytes(src, 12)>>

\* C7: in an accepted image whose page size is a power of two the present
\* blocks follow the block list's order, the first starts at hdr_space(), each
\* starts at a multiple of the page size and at its predecessor's start plus
\* its predecessor's size rounded up to the page size, no two overlap, and the
\* returned cursor is hdr_space() plus the sum of the rounded sizes.
C7_BlockLayout ==
    (Accepted /\ PowerOfTwo(page)) =>
        LET blocks == PresentFrom(source.raw, 1)
            n == Len(blocks)
        IN /\ n > 0 => blocks[1].off = hdr_space(source.header)
           /\ \A i \in 1..n : Multiple(blocks[i].off, page)
           /\ \A i \in 2..n :
                 blocks[i].off = blocks[i - 1].off + RoundUp(blocks[i - 1].size, page)
           /\ \A i, j \in 1..n :
                 i < j => blocks[i].off + blocks[i].size <= blocks[j].off
           /\ source.tail = hdr_space(source.header) + SumAligned(blocks, page)
           /\ Multiple(hdr_space(source.header), page)

\* C7, reached: an accepted image with at least three blocks, one of them of a
\* size that is no multiple of the page size.
C7_SeveralBlocks ==
    /\ Accepted /\ PowerOfTwo(page)
    /\ Len(PresentFrom(source.raw, 1)) >= 3
    /\ ~Multiple(PresentFrom(source.raw, 1)[1].size, page)

\* the v2 image of C8: kernel_size 0x400000, ramdisk_size 0x100000, every other
\* block size 0, page_size 2048
IsScenario ==
    /\ IsAndroid /\ src.len >= BOOT_HEADER_V2.total_size
    /\ from_le_bytes(src, BOOT_HEADER_V0.offset["header_version"]) = 2
    /\ \A name \in Blocks :
          BOOT_HEADER_V2.offset[size_field[name]] # 0 =>
              from_le_bytes(src, BOOT_HEADER_V2.offset[size_field[name]]) =
                  (CASE name = "kernel" -> 4194304
                     [] name = "ramdisk" -> 1048576
                     [] OTHER -> 0)
    /\ from_le_bytes(src, BOOT_HEADER_V2.offset["page_size"]) = 2048

\* C8 as the code has it: the image parses to exactly the blocks kernel at
\* 0x800..0x400800 and ramdisk at 0x400800..0x500800, with the cursor at
\* 0x500800 (the header space of a 1660-byte v2 header on 2048-byte pages is
\* 0x800).
C8_ScenarioBlocks ==
    (pc # "start" /\ IsScenario /\ src.len >= 5244928) =>
        /\ Accepted
        /\ source.raw = [name \in Blocks |->
                            CASE name = "kernel" -> Some(Sl(2048, 4194304))
                              [] name = "ramdisk" -> Some(Sl(4196352, 1048576))
                              [] OTHER -> None]
        /\ source.tail = 5244928

\* C8, reached: the image has been parsed.
C8_ScenarioParsed ==
    pc = "parsed" /\ IsScenario /\ src.len >= 5244928 /\ IsSome(source.raw["ramdisk"])

\* C8 as the specification has it: kernel at 0x1000..0x401000, ramdisk at
\* 0x401000..0x501000, cursor at 0x501000.
C8_ScenarioBlocksAsSpecified ==
    (pc # "start" /\ IsScenario /\ src.len >= 5244928) =>
        /\ Accepted
        /\ source.raw = [name \in Blocks |->
                            CASE name = "kernel" -> Some(Sl(4096, 4194304))
                              [] name = "ramdisk" -> Some(Sl(4198400, 1048576))
                              [] OTHER -> None]
        /\ source.tail = 5246976

\* the cursor of the block walk at block i: the header space plus the steps
\* of the blocks before i that have a defined, non-zero size
RECURSIVE CursorAt(_, _)
CursorAt(h, i) ==
    IF i = 1 THEN hdr_space(h)
    ELSE CursorAt(h, i - 1) +
         (IF has(h, size_field[BlockNames[i - 1]]) /\ get(h, size_field[BlockNames[i - 1]]) > 0
          THEN (IF page_size(h) = 0 THEN 0
                ELSE RoundUp(get(h, size_field[BlockNames[i - 1]]), page_size(h)))
          ELSE 0)

\* block i has a non-zero size and does not lie inside the input
OutOfRange(h, i) ==
    /\ has(h, size_field[BlockNames[i]])
    /\ get(h, size_field[BlockNames[i]]) > 0
    /\ CursorAt(h, i) + get(h, size_field[BlockNames[i]]) > src.len

\* C9: a block whose size field is undefined or 0 is None and does not move
\* the cursor; a block of non-zero size that does not lie inside the input
\* makes the whole parse fail with "invalid block", so that no partial block
\* set is returned.
C9_AbsentAndOutOfRangeBlocks ==
    (pc # "start" /\ Header.kind = "Ok" /\ hdr_space(Header.val) # Panic) =>
        LET h == Header.val
            bad == \E i \in 1..Len(BlockNames) : OutOfRange(h, i)
        IN /\ bad <=> boot = Err(<<"blocks", "invalid block">>)
           /\ bad => ~Accepted
           /\ Accepted =>
                 /\ \A i \in 1..Len(BlockNames) :
                       IF has(h, size_field[BlockNames[i]])
                          /\ get(h, size_field[BlockNames[i]]) > 0
                       THEN source.raw[BlockNames[i]] =
                               Some(Sl(CursorAt(h, i), get(h, size_field[BlockNames[i]])))
                       ELSE source.raw[BlockNames[i]] = None
                 /\ source.tail = CursorAt(h, Len(BlockNames) + 1)

\* C9, reached: a parse has failed with "invalid block" on a block that comes
\* after a block in range.
C9_InvalidBlockAfterValid ==
    /\ pc = "parse_failed" /\ boot = Err(<<"blocks", "invalid block">>)
    /\ \E i \in 2..Len(BlockNames) :
          /\ OutOfRange(Header.val, i)
          /\ \E j \in 1..(i - 1) :
                /\ has(Header.val, size_field[BlockNames[j]])
                /\ get(Header.val, size_field[BlockNames[j]]) > 0
                /\ ~OutOfRange(Header.val, j)

\* C10: page_size() is 4096 for Android headers of version 3 and above, whose
\* layout defines no page_size field, and the u32 of the page_size field (byte
\* offset 36 of an Android v0-v2 header, 12 of a Vendor header) otherwise;
\* hdr_space() is the layout's total_size rounded up to page_size() (an
\* assertion failure when page_size() is not a power of two), which is 4096
\* for every Android v3 image.
C10_PageSizeAndHeaderSpace ==
    (pc # "start" /\ Header.kind = "Ok") =>
        LET h == Header.val IN
        /\ (h.version[1] = "Android" /\ h.version[2] >= 3) =>
              /\ page_size(h) = 4096
              /\ ~has(h, "page_size")
        /\ (h.version[1] = "Android" /\ h.version[2] <= 2) =>
              page_size(h) = from_le_bytes(src, 36)
        /\ h.version[1] = "Vendor" => page_size(h) = from_le_bytes(src, 12)
        /\ PowerOfTwo(page_size(h)) =>
              hdr_space(h) = RoundUp(h.layout.total_size, page_size(h))
        /\ (page_size(h) # 0 /\ ~PowerOfTwo(page_size(h))) => hdr_space(h) = Panic
        /\ h.version = <<"Android", 3>> => hdr_space(h) = 4096

\* C10, reached: an Android v3 header has been parsed, whose layout defines no
\* page_size field and whose page size and header space are 4096.
C10_V3HeaderParsed ==
    /\ pc = "parsed" /\ source.header.version = <<"Android", 3>>
    /\ ~has(source.header, "page_size")
    /\ page_size(source.header) = 4096
    /\ hdr_space(source.header) = 4096

\* the block walk of the source, when its header parses
Walk ==
    build_blocks(src, Header.val, page_size(Header.val), 1, hdr_space(Header.val),
                 [b \in Blocks |-> None])
HasTable ==
    /\ Header.kind = "Ok" /\ hdr_space(Header.val) # Panic
    /\ Walk.kind = "Ok" /\ IsSome(Walk.val.blocks["vendor_ramdisk_table"])

\* the ramdisk_size (bytes 0..4) and the ramdisk_offset (bytes 4..8) of the
\* i-th 108-byte record of the source's table block
RecordSize(i) ==
    from_le_bytes(src, Unwrap(Walk.val.blocks["vendor_ramdisk_table"]).off + (i - 1) * 108)
RecordOffset(i) ==
    from_le_bytes(src, Unwrap(Walk.val.blocks["vendor_ramdisk_table"]).off + (i - 1) * 108 + 4)

\* C11: with a vendor_ramdisk_table block present the block parse returns a
\* table exactly when the header's entry size is 108, the table block holds
\* at least entry_num * 108 bytes, the ramdisk block is present and every
\* record's offset + size lies within the ramdisk block, and fails otherwise;
\* the table then has exactly entry_num entries, the data of each being the
\* record's sub-range of the ramdisk block.
C11_VendorTableValidation ==
    (pc # "start" /\ HasTable) =>
        LET h == Header.val
            raw == Walk.val.blocks
            n == get(h, "vendor_ramdisk_table_entry_num")
            valid ==
                /\ get(h, "vendor_ramdisk_table_entry_size") = 108
                /\ Unwrap(raw["vendor_ramdisk_table"]).size >= n * 108
                /\ IsSome(raw["ramdisk"])
                /\ \A i \in 1..n :
                      RecordOffset(i) + RecordSize(i) <= Unwrap(raw["ramdisk"]).size
        IN /\ ~valid <=> (boot.kind = "Err" /\ boot.err[1] = "blocks")
           /\ Accepted =>
                 /\ IsSome(source.blocks.ramdisk)
                 /\ IsSome(Unwrap(source.blocks.ramdisk).vendor_ramdisk_table)
                 /\ Len(EntriesOf(source)) = n
                 /\ \A i \in 1..n :
                       EntriesOf(source)[i].data =
                           Sl(Unwrap(raw["ramdisk"]).off + RecordOffset(i), RecordSize(i))

\* C11, reached: an accepted table of one entry read from a table block that
\* is longer than the one record the header counts.
C11_TableLongerThanUsed ==
    /\ pc = "parsed" /\ HasTable
    /\ Len(EntriesOf(source)) = 1
    /\ Unwrap(source.raw["vendor_ramdisk_table"]).size > 108

RECURSIVE SumSizes(_)
SumSizes(entries) ==
    IF entries = <<>> THEN 0 ELSE entries[1].entry_size + SumSizes(Tail(entries))

\* C12: the ramdisk_size values of an accepted vendor ramdisk table sum to at
\* most the length of the ramdisk block.
C12_EntrySizesSumWithinRamdisk ==
    (Accepted /\ EntriesOf(source) # <<>>) =>
        SumSizes(EntriesOf(source)) <= Unwrap(source.raw["ramdisk"]).size

\* C12, the input that fails: an accepted table whose two entries name the
\* same bytes of the ramdisk block, so that their sizes sum to more than its
\* length.
C12_OverlappingEntriesAccepted ==
    /\ pc = "parsed"
    /\ Len(EntriesOf(source)) = 2
    /\ EntriesOf(source)[1].data = EntriesOf(source)[2].data
    /\ SumSizes(EntriesOf(source)) > Unwrap(source.raw["ramdisk"]).size

\* the block parse of the source, when its header parses
BlocksResult == BootImageBlocks_parse(src, Header.val)
BlocksOk ==
    Header.kind = "Ok" /\ hdr_space(Header.val) # Panic /\ BlocksResult.kind = "Ok"
\* the last 64 bytes of a buffer
LastFooter(b) == Slice(b, b.len - 64, b.len)
\* the footer's vbmeta range lies in the source and starts with "AVB0"
VbmetaValid ==
    LET off == from_be_bytes(LastFooter(src), 20)
        vsz == from_be_bytes(LastFooter(src), 28)
    IN /\ off # Huge /\ vsz # Huge /\ off + vsz <= src.len
       /\ StartsWith(Slice(src, off, off + vsz), <<65, 86, 66, 48>>)

\* C13 as the specification has it: AVB info is None exactly when the last 64
\* bytes do not start with "AVBf"; with the magic the parse fails unless the
\* vbmeta range lies in the image and starts with "AVB0"; avb_tail is
\* bytes[blocks_end .. original_image_size] whenever original_image_size >
\* blocks_end, None only when they are equal, and the parse fails when
\* original_image_size < blocks_end.
C13_AvbInfoDecision ==
    (pc # "start" /\ BlocksOk) =>
        LET magic == StartsWith(LastFooter(src), <<65, 86, 66, 102>>)
            orig == from_be_bytes(LastFooter(src), 12)
            blocks_end == BlocksResult.val.off
        IN /\ ~magic <=> (Accepted /\ source.avb_info = None)
           /\ (magic /\ ~VbmetaValid) => boot.kind = "Err"
           /\ (magic /\ VbmetaValid) =>
                 /\ orig < blocks_end =>
                       boot = Err(<<"avb", "invalid avb original image size">>)
                 /\ orig > blocks_end =>
                       /\ Accepted
                       /\ Unwrap(source.avb_info).avb_tail
                             = Some(Sl(blocks_end, orig - blocks_end))
                       /\ orig <= src.len
                 /\ orig = blocks_end =>
                       Accepted /\ Unwrap(source.avb_info).avb_tail = None

\* C13, the input that fails: an accepted image whose footer gives an
\* original_image_size beyond the end of the image, with no avb_tail.
C13_OriginalSizeBeyondImage ==
    /\ pc = "parsed" /\ IsSome(source.avb_info)
    /\ from_be_bytes(LastFooter(src), 12) > src.len
    /\ Unwrap(source.avb_info).avb_tail = None

\* C14: the footer patch writes leaves every byte of the source footer but
\* those of original_image_size (12..20) and vbmeta_offset (20..28) as they
\* were, and the two fields read back, big-endian, as the values patched in.
C14_FooterPatchFrame ==
    (Done /\ IsSome(source.avb_info)) =>
        LET f == LastFooter(out.data)
            g == DataOf(src, Unwrap(source.avb_info).avb_footer)
        IN /\ f.len = 64
           /\ \A i \in 0..63 : i \notin 12..27 => At(f, i) = At(g, i)
           /\ from_be_bytes(f, 12) = p.total_size
           /\ from_be_bytes(f, 20) = p.avb_header_off
           /\ from_be_bytes(f, 28) = from_be_bytes(g, 28)

\* C14, reached: a patched footer whose two fields both differ from the
\* source footer's.
C14_BothFieldsRewritten ==
    /\ Done /\ IsSome(source.avb_info)
    /\ from_be_bytes(LastFooter(out.data), 12) # from_be_bytes(LastFooter(src), 12)
    /\ from_be_bytes(LastFooter(out.data), 20) # from_be_bytes(LastFooter(src), 20)
    /\ p.total_size # p.avb_header_off

-----------------------------------------------------------------------------
(* Claims about the cpio archive                                           *)

PlainInit == Tail(PathInit)
PlainDev == Tail(PathDev)
PlainConsole == Tail(PathConsole)

\* no leading, trailing or doubled '/'
Normalized(key) ==
    key # <<>> =>
        /\ key[1] # 47 /\ key[Len(key)] # 47
        /\ \A i \in 1..(Len(key) - 1) : ~(key[i] = 47 /\ key[i + 1] = 47)

\* C15: loading back the archive that dump wrote from a Cpio succeeds and
\* yields a Cpio equal to the dumped one, the same keys with the same
\* mode, uid, gid, device numbers and payload.
C15_DumpLoadRoundTrip ==
    cpio_io.op = "reload" => (cpio_io.result.kind = "Ok" /\ cpio = cpio_io.dumped)

\* C15, the input that fails: a Cpio holding the regular file init with a
\* payload, the directory dev and the character device dev/console, whose
\* dumped archive load_from_data rejects.
C15_RoundTripRejected ==
    /\ cpio_io.op = "reload"
    /\ DOMAIN cpio_io.dumped = {PlainInit, PlainDev, PlainConsole}
    /\ cpio_io.dumped[PlainInit] = CpioEntry_regular(488, PayloadOdd)
    /\ cpio_io.dumped[PlainDev] = CpioEntry_dir(493)
    /\ cpio_io.dumped[PlainConsole] = CpioEntry_char(384, 5, 1)
    /\ cpio_io.result.kind = "Err"

\* C16: after any sequence of calls every key of the entry map is a
\* normalized path and none is ".", ".." or "TRAILER!!!".
C16_KeysNormalized ==
    \A key \in DOMAIN cpio : Normalized(key) /\ key \notin {Dot, DotDot, TRAILER}

\* C16, the input that fails: load_from_data on an archive with a record
\* named "/init" leaves the key "/init" in the map.
C16_AbsoluteNameKept ==
    /\ cpio_io.op = "load" /\ cpio_io.result.kind = "Ok"
    /\ PathInit \in DOMAIN cpio

\* C17: the key norm_path makes of a path is a fixed point of norm_path,
\* has no leading, trailing or empty component, and is the empty string
\* when the path is empty or made of slashes only.
C17_NormPath ==
    cpio_io.op \in {"add", "mv", "rm", "exists"} =>
        /\ norm_path(cpio_io.key) = cpio_io.key
        /\ Normalized(cpio_io.key)
        /\ (\A i \in 1..Len(cpio_io.path) : cpio_io.path[i] = 47) => cpio_io.key = <<>>
        /\ SelectSeq(cpio_io.key, LAMBDA b : b # 47) = SelectSeq(cpio_io.path, LAMBDA b : b # 47)

\* C17, reached: a path with leading, doubled and trailing slashes has been
\* normalized to its one component.
C17_SlashesDropped ==
    /\ cpio_io.op = "rm"
    /\ cpio_io.path = PathInitSlashes
    /\ cpio_io.key = PlainInit

-----------------------------------------------------------------------------
(* Claims about format detection                                           *)

\* the input begins with the bytes
Leading(data, bytes) ==
    data.len >= Len(bytes) /\ \A i \in 1..Len(bytes) : At(data, i - 1) = bytes[i]

\* the format the leading bytes stand for
FormatOfLeadingBytes(data) ==
    LET power_of_two(v) == \E k \in 0..30 : v = 2^k
        lzma == /\ data.len > 13
                /\ At(data, 0) = 93
                /\ power_of_two(At(data, 1) + 256 * At(data, 2) + 65536 * At(data, 3)
                                + 16777216 * At(data, 4))
                /\ \A i \in 5..12 : At(data, i) = 255
    IN CASE Leading(data, <<31, 139>>) \/ Leading(data, <<31, 158>>) -> "GZIP"
         [] Leading(data, <<137, 76, 90, 79>>) -> "LZOP"
         [] Leading(data, <<253, 55, 122, 88, 90>>) -> "XZ"
         [] Leading(data, <<66, 90, 104>>) -> "BZIP2"
         [] Leading(data, <<3, 33, 76, 24>>) \/ Leading(data, <<4, 34, 77, 24>>) -> "LZ4"
         [] Leading(data, <<2, 33, 76, 24>>) -> "LZ4_LEGACY"
         [] OTHER -> IF lzma THEN "LZMA" ELSE "UNKNOWN"

\* C18: parse_compress_format returns the format of the leading bytes: GZIP,
\* LZOP, XZ, BZIP2, LZ4 and LZ4_LEGACY by their magics, LZMA exactly when no
\* magic matches, the length exceeds 13, byte 0 is 0x5D, the little-endian
\* u32 at 1..5 is a power of two and bytes 5..13 are all 0xFF, UNKNOWN
\* otherwise; never ZOPFLI, and the same for inputs that agree on their
\* first 14 bytes.
C18_FormatByLeadingBytes ==
    probe.format # "none" =>
        /\ probe.format = FormatOfLeadingBytes(probe.data)
        /\ probe.format # "ZOPFLI"
        /\ \A other \in Probes :
              (/\ other.len >= 14 /\ probe.data.len >= 14
               /\ \A i \in 0..13 : At(other, i) = At(probe.data, i))
              => parse_compress_format(other) = probe.format

\* C18, reached: a 14-byte input with an LZMA header whose dictionary size
\* is 2^30 has been detected as LZMA.
C18_LzmaDetected ==
    /\ probe.format = "LZMA"
    /\ probe.data.len = 14
    /\ from_le_bytes(probe.data, 1) = 2^30

-----------------------------------------------------------------------------
(* Claims about dumping blocks                                             *)

\* C19: a block whose detected format is UNKNOWN or LZOP, dumped with
\* raw = false, is copied to the output byte for byte, and get_decoder is
\* never called with UNKNOWN or LZOP.
C19_OpaqueBlocksCopied ==
    /\ dumped.decoder \notin {"UNKNOWN", "LZOP"}
    /\ (dumped.block # "none" /\ ~dumped.raw /\ dumped.detected \in {"UNKNOWN", "LZOP"})
          => dumped.result = Ok(dumped.data)

\* C19, the input that fails: the kernel of a parsed image begins with the
\* LZOP magic, and its dump with raw = false ends in get_decoder's
\* unreachable!().
C19_LzopKernelDumpAborts ==
    /\ dumped.block = "kernel" /\ ~dumped.raw
    /\ dumped.detected = "LZOP" /\ StartsWith(dumped.data, LZOP_MAGIC)
    /\ dumped.decoder = "LZOP"
    /\ dumped.result.kind = "Panic"

-----------------------------------------------------------------------------
(* Claims about the LZ4 legacy encoder                                     *)

\* the input cut into pieces of LZ4_BLOCK_SIZE bytes and a shorter last one
RECURSIVE Pieces(_)
Pieces(input) ==
    IF input.len = 0 THEN <<>>
    ELSE IF input.len <= LZ4_BLOCK_SIZE THEN <<input>>
    ELSE <<Slice(input, 0, LZ4_BLOCK_SIZE)>>
         \o Pieces(Slice(input, LZ4_BLOCK_SIZE, input.len))

RECURSIVE Records(_)
Records(pieces) ==
    IF pieces = <<>> THEN <<>>
    ELSE encode_block(<<>>, pieces[1]) \o Records(Tail(pieces))

MagicOnce == <<[kind |-> "u32", val |-> 407642370, of |-> Empty]>>

\* C20: after any writes and finish() the sink holds the magic once, then
\* one size and block record for each 8 MiB piece of the concatenated input
\* and for the shorter last piece, in order.
C20_MagicThenOneRecordPerChunk ==
    enc.op = "finished" => enc.write = MagicOnce \o Records(Pieces(enc.input))

\* C20, the input that fails: an empty write, then a write of three bytes,
\* then finish(): the sink begins with the magic twice.
C20_MagicWrittenTwice ==
    /\ enc.op = "finished"
    /\ enc.lens = <<0, 3>>
    /\ SubSeq(enc.write, 1, 2) = MagicOnce \o MagicOnce

(* C21: in every read call of the LZ4 decoder, an I/O error raised by the   *)
(* underlying reader is the call's result, unchanged, unless it is          *)
(* UnexpectedEof on the initial block-size read; and the input ending       *)
(* where a block's compressed bytes are due is an error, never a read of    *)
(* 0 bytes.  (The statement of the claim; the code violates it.)            *)
C21_ErrorsReturned ==
    dec.op = "read" =>
        /\ (dec.met.io # "none" /\ ~(dec.met.io = "UnexpectedEof" /\ dec.met.at = "block_size"))
               => dec.res = Err(dec.met.io)
        /\ dec.met.ended => dec.res.kind = "Err"

\* C21 witness: the reader failed while a block's compressed bytes were
\* read, and the read call returned decompressed bytes all the same
C21_Witness ==
    /\ dec.op = "read"
    /\ dec.met.at = "block" /\ dec.met.io = "Other"
    /\ dec.res.kind = "Ok" /\ dec.res.val > 0

\* the replacement usage the patcher rejects: replace_ramdisk on a source
\* with a vendor ramdisk table, a replace_vendor_ramdisk index beyond the
\* table or on a source without table, a raw replacement of a kernel or
\* ramdisk the source does not have
InvalidUsage ==
    LET table == source_vendor_table
        raw(r) == IsSome(r) /\ ~Unwrap(r).compressed
    IN \/ IsSome(table) /\ IsSome(opt.replace_ramdisk)
       \/ IsSome(table) /\ \E index \in DOMAIN opt.replace_vendor_ramdisk :
                               index >= Len(Unwrap(table))
       \/ ~IsSome(table) /\ DOMAIN opt.replace_vendor_ramdisk # {}
       \/ raw(opt.replace_kernel) /\ ~IsSome(source.blocks.kernel)
       \/ ~IsSome(table) /\ raw(opt.replace_ramdisk) /\ ~IsSome(source.blocks.ramdisk)

PatchEnded == pc \in {"done", "patch_failed", "patch_aborted"}

(* C22: a patch given one of the four invalid replacement usages never      *)
(* completes, and a patch given any other combination of replacements does  *)
(* not stop on account of its replacements.  (The statement of the claim;    *)
(* the code violates its second half.)                                       *)
C22_RejectsExactlyInvalidUsage ==
    PatchEnded =>
        /\ InvalidUsage => pc # "done"
        /\ ~InvalidUsage => p.err = ""

\* C22 witness: a raw kernel replacement for a source whose kernel was
\* detected as LZOP is none of the four cases, and patch panics in get_encoder
C22_Witness ==
    /\ pc = "patch_aborted" /\ p.err = "unreachable"
    /\ IsSome(opt.replace_kernel) /\ ~Unwrap(opt.replace_kernel).compressed
    /\ Unwrap(source.blocks.kernel).compress_format = "LZOP"
    /\ ~InvalidUsage

\* the four invalid usages are answered with an error
C22_InvalidUsageIsAnError ==
    PatchEnded /\ InvalidUsage /\ p.err # "" => pc = "patch_failed"

\* a replacement given with compressed = false
Raw(replace) == IsSome(replace) /\ ~Unwrap(replace).compressed
RawKernelOverUnknown ==
    /\ Raw(opt.replace_kernel) /\ IsSome(source.blocks.kernel)
    /\ Unwrap(source.blocks.kernel).compress_format = "UNKNOWN"
RawRamdiskOverUnknown ==
    /\ ~IsSome(source_vendor_table)
    /\ Raw(opt.replace_ramdisk) /\ IsSome(source.blocks.ramdisk)
    /\ Unwrap(source.blocks.ramdisk).compress_format = "UNKNOWN"
RawEntryOverUnknown(index) ==
    /\ IsSome(source_vendor_table) /\ index < Len(Unwrap(source_vendor_table))
    /\ index \in DOMAIN opt.replace_vendor_ramdisk
    /\ ~opt.replace_vendor_ramdisk[index].compressed
    /\ Unwrap(source_vendor_table)[index + 1].compress_format = "UNKNOWN"
Written(what) == {i \in 1..Len(ops) : ops[i].op = "write" /\ ops[i].what = what}

(* C23: a raw replacement (compressed = false) of a kernel, ramdisk or      *)
(* vendor ramdisk entry whose source format is UNKNOWN is never written to  *)
(* the output, and the patch given it does not complete.  (The statement of *)
(* the claim; the code violates it.)                                        *)
C23_RawOverUnknownFails ==
    boot.kind = "Ok" =>
        /\ RawKernelOverUnknown => Written("kernel") = {} /\ pc # "done"
        /\ RawRamdiskOverUnknown => Written("ramdisk") = {} /\ pc # "done"
        /\ \A index \in 0..MaxEntries :
              RawEntryOverUnknown(index) =>
                  Cardinality(Written("vendor_ramdisk")) <= index /\ pc # "done"

\* C23 witness: patch completed with a raw kernel replacement over a kernel
\* of UNKNOWN format, and wrote the replacement stream as it was given
C23_Witness ==
    /\ pc = "done" /\ RawKernelOverUnknown
    /\ \E i \in Written("kernel") : ops[i].len = Unwrap(opt.replace_kernel).data.len

(* C24: get_os_version decodes the raw os_version 0x03FD0014 (66912276) to  *)
(* OsVersion 1.127.32 with PatchLevel 2001-4, the raw value 402981204 to    *)
(* OsVersion 12.1.32 with PatchLevel 2021-4, and the raw value 0 to None.   *)
C24_OsVersionDecoded ==
    got.op = "get_os_version" /\ got.has =>
        /\ got.raw = 66912276 => got.res = Ok(Some(<<1, 127, 32, 2001, 4>>))
        /\ got.raw = 402981204 => got.res = Ok(Some(<<12, 1, 32, 2021, 4>>))
        /\ got.raw = 0 => got.res = Ok(None)

\* C24 as stated: the raw value 0x03FD0014 decodes to OsVersion 12.1.32 with
\* PatchLevel 2001-4, and 0 to None
C24_OsVersionDecodedAsStated ==
    got.op = "get_os_version" /\ got.has =>
        /\ got.raw = 66912276 => got.res = Ok(Some(<<12, 1, 32, 2001, 4>>))
        /\ got.raw = 0 => got.res = Ok(None)

\* C24 witness: get_os_version was called on a header whose os_version
\* field holds 0x03FD0014 and returned a version
C24_Witness ==
    /\ got.op = "get_os_version" /\ got.has
    /\ got.raw = 66912276 /\ IsSome(got.res.val)

\* C24, the other case: get_os_version was called on a header whose
\* os_version field holds 0
C24_ZeroDecoded == got.op = "get_os_version" /\ got.has /\ got.raw = 0

(* C25: a call of get_F for a field that the header's layout does not have  *)
(* (its offset is 0) ends in a panic and returns no value.  (The statement  *)
(* of the claim; the code violates it.)                                     *)
C25_AbsentFieldPanics ==
    got.op \in {"get", "get_os_version"} /\ ~got.has => got.res.kind = "Panic"

\* C25 witness: get_second_size on a boot header v3, which has no
\* second_size field, returned the first four bytes of the header, "ANDR"
C25_Witness ==
    /\ got.op = "get" /\ got.field = "second_size" /\ ~got.has
    /\ got.res = Ok(from_le_bytes(FromSeq(<<65, 78, 68, 82>>), 0))

\* the writes of vendor ramdisk entries, in the order patch made them
IsEntryWrite(o) == o.op = "write" /\ o.what = "vendor_ramdisk"
EntryWrites == SelectSeq(ops, IsEntryWrite)
RECURSIVE SumLens(_, _)
SumLens(w, n) == IF n = 0 THEN 0 ELSE w[n].len + SumLens(w, n - 1)
\* the i-th 108-byte record of the table patch wrote
RecordWritten(i) ==
    Slice(out.data, p.off["vendor_ramdisk_table"] + (i - 1) * VendorRamdiskTableEntryV4_SIZE,
          p.off["vendor_ramdisk_table"] + i * VendorRamdiskTableEntryV4_SIZE)
\* the bytes patch has to write for the i-th entry of the source's table
EntryBytes(i) ==
    LET entry == Unwrap(source_vendor_table)[i] IN
    IF (i - 1) \in DOMAIN opt.replace_vendor_ramdisk
    THEN LET payload == opt.replace_vendor_ramdisk[i - 1] IN
         IF payload.compressed \/ entry.compress_format = "UNKNOWN" THEN payload.data
         ELSE get_encoder(entry.compress_format, payload.data).val
    ELSE DataOf(src, entry.data)

(* C26: a completed patch of an image with a vendor ramdisk table wrote one  *)
(* entry per table entry, in the table's order and back to back from the    *)
(* start of the ramdisk block; the i-th record of the written table has     *)
(* ramdisk_size = the bytes written for entry i and ramdisk_offset = the    *)
(* sum of the sizes before it (0 for the first), and keeps the source       *)
(* record's bytes 8..108 (ramdisk_type, ramdisk_name, board_id); the        *)
(* header's ramdisk_size is the sum of the entry sizes.                     *)
C26_VendorEntriesBackToBack ==
    (pc = "done" /\ p.has_table) =>
        LET w == EntryWrites
            table == Unwrap(source_vendor_table)
        IN /\ Len(w) = Len(table)
           /\ \A i \in 1..Len(w) :
                 /\ w[i].off = p.off["ramdisk"] + SumLens(w, i - 1)
                 /\ w[i].len = EntryBytes(i).len
                 /\ Slice(out.data, w[i].off, w[i].off + w[i].len) = EntryBytes(i)
                 /\ from_le_bytes(RecordWritten(i), 0) = w[i].len
                 /\ from_le_bytes(RecordWritten(i), 4) = SumLens(w, i - 1)
                 /\ Slice(RecordWritten(i), 8, VendorRamdiskTableEntryV4_SIZE)
                        = Slice(table[i].entry, 8, VendorRamdiskTableEntryV4_SIZE)
           /\ from_le_bytes(out.data, p.header_off + source.header.layout.offset["ramdisk_size"])
                 = SumLens(w, Len(w))

\* C26 witness: a completed patch of a two-entry table with entry 0 replaced
\* by a stream of another length, so that entry 1 moved
C26_Witness ==
    /\ pc = "done" /\ p.has_table
    /\ Len(EntryWrites) = 2 /\ 0 \in DOMAIN opt.replace_vendor_ramdisk
    /\ from_le_bytes(RecordWritten(2), 4) = EntryWrites[1].len
    /\ from_le_bytes(RecordWritten(2), 4) # from_le_bytes(Unwrap(source_vendor_table)[2].entry, 4)

\* the place of an operation on the sink in the order patch follows
OpOrder ==
    <<"output", "header", "kernel", "ramdisk", "second", "recovery_dtbo", "dtb",
      "signature", "vendor_ramdisk_table", "bootconfig", "avb_tail", "avb_header",
      "avb_footer", "kernel_size", "ramdisk_size", "second_size", "recovery_dtbo_size",
      "dtb_size", "signature_size", "vendor_ramdisk_table_size", "bootconfig_size",
      "flush">>
OpName(o) ==
    CASE o.op = "flush" -> "flush"
      [] o.what = "vendor_ramdisk" -> "ramdisk"
      [] OTHER -> o.what
Rank(o) == CHOOSE k \in 1..Len(OpOrder) : OpOrder[k] = OpName(o)
\* the operations that one patch makes once per vendor ramdisk table entry
PerEntry(o) == o.what \in {"vendor_ramdisk", "vendor_ramdisk_table"}
IsPrefix(s, t) == Len(s) <= Len(t) /\ SubSeq(t, 1, Len(s)) = s

RECURSIVE SizeFieldsZeroed(_, _)
SizeFieldsZeroed(b, i) ==
    IF i > Len(BlockNames) THEN b
    ELSE LET offset == source.header.layout.offset[size_field[BlockNames[i]]] IN
         SizeFieldsZeroed(IF offset # 0 THEN Put(b, p.header_off + offset, Zeros(u32)) ELSE b,
                          i + 1)
HeaderSpaceOf(b) ==
    Slice(SizeFieldsZeroed(b, 1), p.header_off, p.header_off + hdr_space(source.header))

(* C28: in the output of a completed patch every byte of the header space   *)
(* outside the 4-byte size fields equals the source's byte, also when       *)
(* override_cmdline or override_os_version was called.                      *)
C28_HeaderSpaceKept ==
    pc = "done" => HeaderSpaceOf(out.data) = HeaderSpaceOf(src)

\* C28 witness: a completed patch with override_cmdline set, whose output
\* does not hold the override where the header has its cmdline
C28_Witness ==
    /\ pc = "done" /\ IsSome(opt.override_cmdline)
    /\ has(source.header, "cmdline")
    /\ ~StartsWith(Slice(out.data, source.header.layout.offset["cmdline"], out.data.len),
                   <<97, 61, 98>>)

\* C28, the other override: a completed patch with override_os_version set
C28_OsVersionOverrideIgnored ==
    /\ pc = "done" /\ IsSome(opt.override_os_version)
    /\ has(source.header, "os_version")
    /\ get([source.header EXCEPT !.data = out.data], "os_version") = 66912276

(* C29: a patch that ends with the error of an invalid replacement usage    *)
(* has performed no operation on the output: the sink is as it was before   *)
(* the call, neither truncated nor written.  (The statement of the claim;   *)
(* the code violates it.)                                                   *)
C29_RejectedBeforeOutput ==
    pc = "patch_failed" => ops = <<>> /\ out = [data |-> Empty, cur |-> 0]

\* C29 witness: patch returned "invalid index" after it had set the length of
\* the output to the source's and written the header space
C29_Witness ==
    /\ pc = "patch_failed" /\ p.err = "invalid index"
    /\ ops[1].op = "truncate" /\ out.data.len = src.len
    /\ Written("header") # {}
    /\ Slice(out.data, 0, 8) = Slice(src, 0, 8)

\* the key is the path or lies under it; every key lies under the root ""
UnderOrEqual(k, key) == k = key \/ key = <<>> \/ StrStartsWith(k, key \o <<47>>)
Restrict(entries, keys) == [k \in keys |-> entries[k]]

(* C30: after rm(p, true) the map holds the entries it held before whose    *)
(* normalized key is neither norm_path(p) nor under it, each unchanged, for *)
(* every p, the root "/" included; after rm(p, false) it holds the entries  *)
(* it held before except the one with the key norm_path(p).  (The           *)
(* statement of the claim; the code violates it for the root.)              *)
C30_RmRemovesSubtree ==
    cpio_io.op = "rm" =>
        LET before == cpio_io.before
            key == cpio_io.key
        IN IF cpio_io.recursive
           THEN cpio = Restrict(before, {k \in DOMAIN before :
                                            ~UnderOrEqual(norm_path(k), key)})
           ELSE cpio = Restrict(before, DOMAIN before \ {key})

\* C30 witness: rm("/", true) on a map with entries removed nothing
C30_Witness ==
    /\ cpio_io.op = "rm" /\ cpio_io.recursive /\ cpio_io.path = PathRoot
    /\ cpio_io.before # <<>> /\ cpio = cpio_io.before

\* C30, for every path but the root: the statement holds
C30_RmRemovesSubtreeBelowRoot ==
    cpio_io.op = "rm" /\ cpio_io.key # <<>> =>
        LET before == cpio_io.before
            key == cpio_io.key
        IN IF cpio_io.recursive
           THEN cpio = Restrict(before, {k \in DOMAIN before :
                                            ~UnderOrEqual(norm_path(k), key)})
           ELSE cpio = Restrict(before, DOMAIN before \ {key})

\* C30, the sibling: rm("/in", true) left the entry "init" in the map
C30_SiblingKept ==
    /\ cpio_io.op = "rm" /\ cpio_io.recursive /\ cpio_io.path = PathIn
    /\ PlainInit \in DOMAIN cpio_io.before /\ cpio = cpio_io.before

====
